---- MODULE Spec2Model ----
(***************************************************************************)
(* Condition trees of IMMICHDynamicAlbums: construction from a rule's      *)
(* "conditions" configuration (ConditionNode.from_config), the optimizer   *)
(* (ConditionNode.optimize) and the evaluator (ConditionNode.evaluate)     *)
(* against the Immich search client.                                       *)
(*                                                                         *)
(* Python values are represented as follows.  An Optional value is a       *)
(* sequence of length at most one: None is <<>>, a present value v is      *)
(* <<v>>.  A list of asset types is a set (the code only tests membership  *)
(* and rebuilds the list from a set when it intersects two of them).       *)
(* Other lists are sequences.  Timestamps are small naturals.              *)
(***************************************************************************)
EXTENDS Integers, Sequences, FiniteSets, TLC

VARIABLES
    config,          \* the rule's "conditions" configuration value
    condition_tree,  \* Rule.condition_tree: None until from_config has run
    pc,              \* "config" -> "built" -> "optimized"
    date_filters,    \* the date filters of the rule, handed to every evaluate call
    base_assets,     \* base_assets argument of the last evaluate call
    result,          \* None, or Some(set returned by the last evaluate call)
    calls,           \* search_assets calls issued by the last evaluate call
    people_resolver, \* the people_resolver given to from_config (None or Some)
    resolve_calls,   \* number of resolve_people_names calls made so far
    ctor,            \* None, or Some(arguments of a direct ConditionNode(...) call)
    \* RuleEngine.sync_rule and the FuzzyMatcher it calls
    rule,               \* the Rule being synced: fuzzy_match and its date range
    global_fuzzy_match, \* the global_fuzzy_match argument of sync_rule
    desired_asset_ids,  \* what rule.execute returned (the exact matches)
    fetch_fails,        \* the assets whose get_asset_metadata request raises
    spc,                \* position in sync_rule
    fuzzy_asset_ids,    \* sync_rule's fuzzy_asset_ids
    all_asset_ids,      \* None, or Some(the set sync_rule reconciles)
    fpc,                \* position in find_related_assets
    exact_match_ids,    \* arguments of find_related_assets
    rule_date_filters,
    sampled_ids,        \* the seeds
    exact_metadata,     \* metadata of the seeds
    boundaries,         \* what _calculate_time_boundaries returned
    queries,            \* search_assets calls issued by the matcher
    candidates,         \* what _query_candidates returned
    fuzzy_matches,      \* None, or Some(the set find_related_assets returned)
    \* one batch of metadata requests on a ThreadPoolExecutor
    batch_kind,         \* "resolution" (filter_by_resolution) or "metadata" (_fetch_asset_metadata)
    batch_asset_ids,    \* the asset_ids argument
    batch_targets,      \* the target_resolutions argument (resolution batches)
    asset_id_list,      \* list(asset_ids): the order the tasks are submitted in
    futures,            \* state of each submitted task: "queued", "running", "done"
    future_results,     \* what each finished task returned or raised
    next_future,        \* index of the future the caller waits for next
    collected,          \* the results kept so far, in the order they were kept
    requests,           \* the assets get_asset_metadata was called for
    completion_order,   \* the tasks in the order they finished
    bpc,                \* "idle", "start", "collecting", "done" or "raised"
    \* RuleEngine, the server's album of the rule and the database
    mode,               \* RuleEngine.mode: "add_only" or "sync"
    user_resolver,      \* whether sync_rule is given a UserResolver
    global_share_user_ids, \* None, or Some(user ids to share albums with)
    server_exact,       \* what rule.execute finds on the server now
    album,              \* None, or Some(id of the album with the rule's album_name)
    album_assets,       \* the assets in that album on the server
    album_users,        \* the viewers of that album on the server
    album_memberships,  \* database table album_memberships
    analyzed_assets,    \* database table analyzed_assets (its asset ids)
    dry_run,            \* dry_run of the last sync_rule call
    trouble,            \* what went wrong in the last call: "none", "fetch", "search", "raise"
    stats,              \* stats the last sync_rule call returned
    add_requests,       \* add_assets_to_album calls of the last sync_rule call
    remove_requests,    \* remove_assets_from_album calls of the last sync_rule call
    albums_created,     \* create_album calls so far
    sharing_updates,    \* update_album_sharing calls so far
    sync_calls,         \* sync_rule calls so far
    \* a Rule in the old filters format
    rule_filters,       \* Rule.filters: None, or Some(RuleFilters)
    \* RuleEngine.sync_all
    rules,              \* self.rules, each rule named by its position
    raising,            \* the rules whose sync_rule raises
    attempted,          \* the rules sync_rule was called for, in call order
    overall_stats,      \* overall_stats of the running sync_all call
    apc                 \* "idle", "looping", "returned", "raised"

condition_vars == <<config, condition_tree, pc, base_assets, date_filters, result,
                    calls, people_resolver, resolve_calls, ctor>>

sync_vars == <<rule, global_fuzzy_match, desired_asset_ids, fetch_fails, spc,
               fuzzy_asset_ids, all_asset_ids>>

matcher_vars == <<fpc, exact_match_ids, rule_date_filters, sampled_ids,
                  exact_metadata, boundaries, queries, candidates, fuzzy_matches>>

fetch_vars == <<batch_kind, batch_asset_ids, batch_targets, asset_id_list, futures,
                future_results, next_future, collected, requests, completion_order, bpc>>

album_vars == <<mode, user_resolver, global_share_user_ids, server_exact, album,
                album_assets, album_users, album_memberships, analyzed_assets, dry_run,
                trouble, stats, add_requests, remove_requests, albums_created,
                sharing_updates, sync_calls>>

legacy_vars == <<rule_filters>>

all_vars == <<rules, raising, attempted, overall_stats, apc>>

vars == <<condition_vars, sync_vars, matcher_vars, fetch_vars, album_vars, legacy_vars,
          all_vars>>

None == <<>>
Some(v) == <<v>>

\* Largest number of nodes (AND, OR and leaves) of a configuration.
MaxNodes == 4

-----------------------------------------------------------------------------
(* The Immich library the client talks to.                                 *)

AssetIds == {"a1", "a2", "a3", "a4"}

\* What the server knows of each asset.  exifInfo carries the EXIF
\* dimensions, original the file dimensions; 0 stands for a missing value.
Library ==
    [a \in AssetIds |->
        CASE a = "a1" -> [type |-> "IMAGE", isFavorite |-> TRUE,
                          make |-> "Apple", model |-> "iPhone",
                          people |-> {"p1"}, takenAt |-> 1, createdAt |-> 1,
                          exifInfo |-> <<1920, 1080>>, original |-> <<0, 0>>]
          [] a = "a2" -> [type |-> "VIDEO", isFavorite |-> TRUE,
                          make |-> "Canon", model |-> "EOS",
                          people |-> {"p1", "p2"}, takenAt |-> 2, createdAt |-> 2,
                          exifInfo |-> <<3840, 2160>>, original |-> <<1920, 1080>>]
          [] a = "a3" -> [type |-> "IMAGE", isFavorite |-> FALSE,
                          make |-> "Apple", model |-> "iPhone",
                          people |-> {"p2"}, takenAt |-> 3, createdAt |-> 3,
                          exifInfo |-> <<1920, 0>>, original |-> <<1920, 1080>>]
          [] OTHER    -> [type |-> "IMAGE", isFavorite |-> TRUE,
                          make |-> "Canon", model |-> "EOS",
                          people |-> {}, takenAt |-> 4, createdAt |-> 4,
                          exifInfo |-> <<0, 0>>, original |-> <<0, 0>>]]

\* PeopleResolver.name_to_id, built from the people the server lists.
name_to_id == [n \in {"Jay", "Alice"} |-> IF n = "Jay" THEN "p1" ELSE "p2"]

\* Elements of a sequence.
Range(s) == {s[i] : i \in 1..Len(s)}

-----------------------------------------------------------------------------
(* ImmichClient.search_assets                                              *)

\* Keyword arguments of search_assets with their defaults.
SearchDefaults ==
    [taken_after |-> None, taken_before |-> None,
     created_after |-> None, created_before |-> None,
     is_favorite |-> None, asset_types |-> None,
     camera_make |-> None, camera_model |-> None,
     include_people_ids |-> None, default_to_image |-> TRUE]

\* Python truthiness of an Optional string and of an Optional list.
\* (Timestamps are never 0 here, so a present timestamp is truthy.)
TruthyStr(x) == x # None /\ x[1] # ""
TruthyList(x) == x # None /\ x[1] # <<>>

\* The server side of POST /search/metadata: every key of the payload
\* narrows the answer; personIds means "has ALL of these people".
ServerMatchesRecord(r, p) ==
    /\ p.taken_after # None => r.takenAt >= p.taken_after[1]
    /\ p.taken_before # None => r.takenAt <= p.taken_before[1]
    /\ p.created_after # None => r.createdAt >= p.created_after[1]
    /\ p.created_before # None => r.createdAt <= p.created_before[1]
    /\ p.is_favorite # None => r.isFavorite = p.is_favorite[1]
    /\ TruthyStr(p.camera_make) => r.make = p.camera_make[1]
    /\ TruthyStr(p.camera_model) => r.model = p.camera_model[1]
    /\ TruthyList(p.include_people_ids) => Range(p.include_people_ids[1]) \subseteq r.people

ServerMatches(a, p) == ServerMatchesRecord(Library[a], p)

\* The asset types the client keeps: IMAGE only when none are given and
\* default_to_image is set, every type when none are given and it is not.
search_assets(p) ==
    LET filter_by_type == p.asset_types # None \/ p.default_to_image
        asset_types == IF p.asset_types # None THEN p.asset_types[1]
                       ELSE IF p.default_to_image THEN {"IMAGE"} ELSE {}
    IN {a \in AssetIds :
          /\ ServerMatches(a, p)
          /\ filter_by_type => Library[a].type \in asset_types}

-----------------------------------------------------------------------------
(* FilterCondition and ConditionNode                                       *)

\* FilterCondition(): every field unset.
FilterCondition ==
    [is_favorite |-> None, asset_types |-> None,
     camera_make |-> None, camera_model |-> None,
     person_ids |-> None, include_tags |-> None, exclude_tags |-> None,
     resolution |-> None]

has_filters(c) ==
    \/ c.is_favorite # None
    \/ c.asset_types # None
    \/ c.camera_make # None
    \/ c.camera_model # None
    \/ c.person_ids # None
    \/ c.include_tags # None
    \/ c.exclude_tags # None
    \/ c.resolution # None

\* A ValueError raised while a node is constructed: what comes out in
\* place of a node.
ValueError == [node_type |-> "ValueError", children |-> <<>>, condition |-> None]

\* ConditionNode.__init__ without its validation.
ConditionNode_unchecked(node_type, children, condition) ==
    [node_type |-> node_type, children |-> children, condition |-> condition]

\* ConditionNode(node_type, children, condition): an AND or OR needs a
\* child, a LEAF needs a condition.
ConditionNode(node_type, children, condition) ==
    IF node_type \in {"and", "or"} /\ children = <<>> THEN ValueError
    ELSE IF node_type = "leaf" /\ condition = None THEN ValueError
    ELSE [node_type |-> node_type, children |-> children, condition |-> condition]

Leaf(c) == ConditionNode("leaf", <<>>, Some(c))

-----------------------------------------------------------------------------
(* ResolutionFilter                                                        *)

\* Assets whose metadata request fails (get_asset_metadata raises).
MetadataFails == {"a4"}

max_workers == 10

\* _extract_resolution looking at the original dimensions first.
extract_resolution_original_first(asset) ==
    IF asset.original[1] # 0 /\ asset.original[2] # 0 THEN Some(asset.original)
    ELSE IF asset.exifInfo[1] # 0 /\ asset.exifInfo[2] # 0 THEN Some(asset.exifInfo)
    ELSE None

\* _extract_resolution: EXIF dimensions when both are there, else the
\* original dimensions when both are there, else None.
extract_resolution(asset) ==
    IF asset.exifInfo[1] # 0 /\ asset.exifInfo[2] # 0 THEN Some(asset.exifInfo)
    ELSE IF asset.original[1] # 0 /\ asset.original[2] # 0 THEN Some(asset.original)
    ELSE None

\* check_single_asset without its try/except: a failed request is raised.
check_single_asset_raises(asset_id, target_resolutions, fails) ==
    IF asset_id \in fails
    THEN [raised |-> TRUE, value |-> None]
    ELSE LET resolution == extract_resolution(Library[asset_id])
         IN IF resolution # None /\ resolution[1] \in Range(target_resolutions)
            THEN [raised |-> FALSE, value |-> Some(asset_id)]
            ELSE [raised |-> FALSE, value |-> None]

\* check_single_asset: what the worker task of one asset returns.  fails
\* is the set of assets whose get_asset_metadata request raises.
check_single_asset(asset_id, target_resolutions, fails) ==
    IF asset_id \in fails
    THEN [raised |-> FALSE, value |-> None]
    ELSE LET resolution == extract_resolution(Library[asset_id])
         IN IF resolution # None /\ resolution[1] \in Range(target_resolutions)
            THEN [raised |-> FALSE, value |-> Some(asset_id)]
            ELSE [raised |-> FALSE, value |-> None]

\* filter_by_resolution, the batch taken as one step.
filter_by_resolution(asset_ids, target_resolutions) ==
    IF asset_ids = {} \/ target_resolutions = <<>> THEN {}
    ELSE {a \in asset_ids :
            check_single_asset(a, target_resolutions, MetadataFails).value # None}

-----------------------------------------------------------------------------
(* ConditionNode.evaluate                                                  *)
(* Every evaluation returns [result, calls]: the set of asset ids and the  *)
(* search_assets calls it issued, in the order it issued them.             *)

RECURSIVE evaluate(_, _, _)
RECURSIVE evaluate_and(_, _, _, _, _, _)
RECURSIVE evaluate_or(_, _, _, _, _, _)

\* search_params of a leaf: the date filters, then the leaf's own filters.
search_params(c, df) ==
    LET p0 == IF df # None
              THEN [SearchDefaults EXCEPT !.taken_after = df[1].taken_after,
                                          !.taken_before = df[1].taken_before,
                                          !.created_after = df[1].created_after,
                                          !.created_before = df[1].created_before]
              ELSE SearchDefaults
    IN [p0 EXCEPT !.is_favorite = c.is_favorite,
                  !.asset_types = c.asset_types,
                  !.camera_make = IF TruthyStr(c.camera_make) THEN c.camera_make ELSE None,
                  !.camera_model = IF TruthyStr(c.camera_model) THEN c.camera_model ELSE None,
                  !.include_people_ids = c.person_ids]

\* evaluate_leaf without the early return for an empty person_ids list.
evaluate_leaf_no_people_check(node, base, df) ==
    LET c == node.condition[1] IN
    IF node.condition = None \/ ~has_filters(c)
    THEN [result |-> IF base # None THEN base[1] ELSE {}, calls |-> <<>>]
    ELSE LET p == search_params(c, df)
             found == search_assets(p)
             inbase == IF base # None THEN found \cap base[1] ELSE found
             kept == IF TruthyList(c.resolution) /\ inbase # {}
                     THEN filter_by_resolution(inbase, c.resolution[1])
                     ELSE inbase
         IN [result |-> kept, calls |-> <<p>>]

\* evaluate_leaf returning set() for a leaf without filters, whatever the base.
evaluate_leaf_drops_base(node, base, df) ==
    LET c == node.condition[1] IN
    IF node.condition = None \/ ~has_filters(c)
    THEN [result |-> {}, calls |-> <<>>]
    ELSE IF c.person_ids # None /\ Len(c.person_ids[1]) = 0
    THEN [result |-> {}, calls |-> <<>>]
    ELSE LET p == search_params(c, df)
             found == search_assets(p)
             inbase == IF base # None THEN found \cap base[1] ELSE found
             kept == IF TruthyList(c.resolution) /\ inbase # {}
                     THEN filter_by_resolution(inbase, c.resolution[1])
                     ELSE inbase
         IN [result |-> kept, calls |-> <<p>>]

\* evaluate_leaf without the intersection with base_assets.
evaluate_leaf_ignores_base(node, base, df) ==
    LET c == node.condition[1] IN
    IF node.condition = None \/ ~has_filters(c)
    THEN [result |-> IF base # None THEN base[1] ELSE {}, calls |-> <<>>]
    ELSE IF c.person_ids # None /\ Len(c.person_ids[1]) = 0
    THEN [result |-> {}, calls |-> <<>>]
    ELSE LET p == search_params(c, df)
             found == search_assets(p)
             kept == IF TruthyList(c.resolution) /\ found # {}
                     THEN filter_by_resolution(found, c.resolution[1])
                     ELSE found
         IN [result |-> kept, calls |-> <<p>>]

evaluate_leaf(node, base, df) ==
    LET c == node.condition[1] IN
    IF node.condition = None \/ ~has_filters(c)
    THEN [result |-> IF base # None THEN base[1] ELSE {}, calls |-> <<>>]
    ELSE IF c.person_ids # None /\ Len(c.person_ids[1]) = 0
    THEN [result |-> {}, calls |-> <<>>]
    ELSE LET p == search_params(c, df)
             found == search_assets(p)
             inbase == IF base # None THEN found \cap base[1] ELSE found
             kept == IF TruthyList(c.resolution) /\ inbase # {}
                     THEN filter_by_resolution(inbase, c.resolution[1])
                     ELSE inbase
         IN [result |-> kept, calls |-> <<p>>]

\* The AND loop without the early exit on an empty result.
evaluate_and_no_exit(children, i, acc, log, base, df) ==
    IF i > Len(children)
    THEN [result |-> IF acc # None THEN acc[1] ELSE {}, calls |-> log]
    ELSE LET child == evaluate(children[i], base, df)
             res == IF acc = None THEN child.result ELSE acc[1] \cap child.result
         IN evaluate_and(children, i + 1, Some(res), log \o child.calls, base, df)

\* The OR loop taking each child's result in place of the union so far.
evaluate_or_last(children, i, acc, log, base, df) ==
    IF i > Len(children)
    THEN [result |-> acc, calls |-> log]
    ELSE LET child == evaluate(children[i], base, df)
         IN evaluate_or(children, i + 1, child.result, log \o child.calls, base, df)

\* The AND loop from child i on; acc is the loop's "result" variable (None
\* before the first child), log the calls issued so far.
evaluate_and(children, i, acc, log, base, df) ==
    IF i > Len(children)
    THEN [result |-> IF acc # None THEN acc[1] ELSE {}, calls |-> log]
    ELSE LET child == evaluate(children[i], base, df)
             res == IF acc = None THEN child.result ELSE acc[1] \cap child.result
         IN IF res = {}
            THEN [result |-> {}, calls |-> log \o child.calls]
            ELSE evaluate_and(children, i + 1, Some(res), log \o child.calls, base, df)

\* The OR loop ending as soon as the union so far holds an asset.
evaluate_or_until_found(children, i, acc, log, base, df) ==
    IF i > Len(children) \/ acc # {}
    THEN [result |-> acc, calls |-> log]
    ELSE LET child == evaluate(children[i], base, df)
         IN evaluate_or(children, i + 1, acc \cup child.result, log \o child.calls, base, df)

\* The OR loop from child i on.
evaluate_or(children, i, acc, log, base, df) ==
    IF i > Len(children)
    THEN [result |-> acc, calls |-> log]
    ELSE LET child == evaluate(children[i], base, df)
         IN evaluate_or(children, i + 1, acc \cup child.result, log \o child.calls, base, df)

evaluate(node, base, df) ==
    IF node.node_type = "leaf" THEN evaluate_leaf(node, base, df)
    ELSE IF node.node_type = "and"
    THEN IF node.children = <<>> THEN [result |-> {}, calls |-> <<>>]
         ELSE evaluate_and(node.children, 1, None, <<>>, base, df)
    ELSE evaluate_or(node.children, 1, {}, <<>>, base, df)

-----------------------------------------------------------------------------
(* ConditionNode.from_config                                               *)

\* A configuration mapping with none of the recognised keys.  The keys
\* "and" and "or" hold the operands; the others are a leaf's filters.
\* type is the Python type of the value: a configuration that is no
\* mapping has another type than "dict".
EmptyConfig ==
    [type |-> "dict", and |-> None, or |-> None, is_favorite |-> None,
     asset_types |-> None, camera |-> None, people |-> None, resolution |-> None]

\* The value of an "and" or "or" key: a list of configurations, or
\* something that is no list.
List(items) == [type |-> "list", items |-> items]
NotAList == [type |-> "str", items |-> <<>>]

\* str.upper on the asset type names.
Upper(t) == CASE t = "image" -> "IMAGE"
              [] t = "video" -> "VIDEO"
              [] OTHER -> t

\* PeopleResolver.resolve_people_names: the ids of the known names, in
\* order; None when there are no names or none of them is known.
RECURSIVE resolved_ids(_, _)
resolved_ids(name_map, names) ==
    IF names = <<>> THEN <<>>
    ELSE (IF Head(names) \in DOMAIN name_map THEN <<name_map[Head(names)]>> ELSE <<>>)
         \o resolved_ids(name_map, Tail(names))

resolve_people_names(name_map, names) ==
    IF names = <<>> THEN None
    ELSE IF resolved_ids(name_map, names) # <<>>
         THEN Some(resolved_ids(name_map, names))
         ELSE None

\* Does _parse_leaf_condition call the resolver for this leaf?
calls_resolver(cfg, resolver) ==
    cfg.people # None /\ cfg.people[1].include # <<>> /\ resolver # None

\* _parse_leaf_condition leaving person_ids unset when no name resolves.
parse_leaf_condition_unset(cfg, resolver) ==
    LET person_ids ==
            IF calls_resolver(cfg, resolver)
            THEN resolve_people_names(resolver[1], cfg.people[1].include)
            ELSE None
        resolution ==
            IF cfg.resolution # None /\ cfg.resolution[1].include # <<>>
            THEN Some(cfg.resolution[1].include)
            ELSE None
    IN Leaf([FilterCondition EXCEPT
                !.is_favorite = cfg.is_favorite,
                !.asset_types = IF cfg.asset_types # None
                                THEN Some({Upper(t) : t \in cfg.asset_types[1]})
                                ELSE None,
                !.camera_make = IF cfg.camera # None THEN cfg.camera[1].make ELSE None,
                !.camera_model = IF cfg.camera # None THEN cfg.camera[1].model ELSE None,
                !.person_ids = person_ids,
                !.resolution = resolution])

parse_leaf_condition(cfg, resolver) ==
    LET person_ids ==
            IF calls_resolver(cfg, resolver)
            THEN LET ids == resolve_people_names(resolver[1], cfg.people[1].include)
                 IN IF TruthyList(ids) THEN ids ELSE Some(<<>>)
            ELSE None
        resolution ==
            IF cfg.resolution # None /\ cfg.resolution[1].include # <<>>
            THEN Some(cfg.resolution[1].include)
            ELSE None
    IN Leaf([FilterCondition EXCEPT
                !.is_favorite = cfg.is_favorite,
                !.asset_types = IF cfg.asset_types # None
                                THEN Some({Upper(t) : t \in cfg.asset_types[1]})
                                ELSE None,
                !.camera_make = IF cfg.camera # None THEN cfg.camera[1].make ELSE None,
                !.camera_model = IF cfg.camera # None THEN cfg.camera[1].model ELSE None,
                !.person_ids = person_ids,
                !.resolution = resolution])

\* An AND or OR node over the operands; a ValueError of an operand, or of
\* the constructor, leaves from_config.
RECURSIVE from_config(_, _)
from_operands(node_type, operands, resolver) ==
    IF operands.type # "list" THEN ValueError
    ELSE LET children == [i \in 1..Len(operands.items) |->
                             from_config(operands.items[i], resolver)]
         IN IF \E i \in 1..Len(children) : children[i] = ValueError
            THEN ValueError
            ELSE ConditionNode(node_type, children, None)

from_config(cfg, resolver) ==
    IF cfg.type # "dict" THEN ValueError
    ELSE IF cfg["and"] # None THEN from_operands("and", cfg["and"][1], resolver)
    ELSE IF cfg["or"] # None THEN from_operands("or", cfg["or"][1], resolver)
    ELSE parse_leaf_condition(cfg, resolver)

\* The leaf configurations of a configuration, in document order.
RECURSIVE config_leaves(_)
RECURSIVE config_leaves_of(_, _)
config_leaves_of(operands, i) ==
    IF i > Len(operands) THEN <<>>
    ELSE config_leaves(operands[i]) \o config_leaves_of(operands, i + 1)
config_leaves(cfg) ==
    IF cfg["and"] # None THEN config_leaves_of(cfg["and"][1].items, 1)
    ELSE IF cfg["or"] # None THEN config_leaves_of(cfg["or"][1].items, 1)
    ELSE <<cfg>>

\* The resolve_people_names calls one from_config makes: one per leaf that
\* asks for people, when a resolver was given.
resolver_calls(cfg, resolver) ==
    Cardinality({i \in 1..Len(config_leaves(cfg)) :
                    calls_resolver(config_leaves(cfg)[i], resolver)})

\* The resolve_people_names calls a from_config that raises has made: the
\* operands are built left to right, and the first ValueError ends it.
RECURSIVE resolver_calls_raised(_, _)
RECURSIVE resolver_calls_raised_of(_, _, _)
resolver_calls_raised_of(operands, i, resolver) ==
    IF i > Len(operands) THEN 0
    ELSE resolver_calls_raised(operands[i], resolver)
         + IF from_config(operands[i], resolver) = ValueError THEN 0
           ELSE resolver_calls_raised_of(operands, i + 1, resolver)
resolver_calls_raised(cfg, resolver) ==
    IF cfg.type # "dict" THEN 0
    ELSE IF cfg["and"] # None
    THEN resolver_calls_raised_of(cfg["and"][1].items, 1, resolver)
    ELSE IF cfg["or"] # None
    THEN resolver_calls_raised_of(cfg["or"][1].items, 1, resolver)
    ELSE IF calls_resolver(cfg, resolver) THEN 1 ELSE 0

-----------------------------------------------------------------------------
(* ConditionNode.optimize                                                  *)

\* Optimization 1: the children of same-type children are spliced in place.
RECURSIVE flatten(_, _, _)
flatten(children, node_type, i) ==
    IF i > Len(children) THEN <<>>
    ELSE (IF children[i].node_type = node_type
          THEN children[i].children
          ELSE <<children[i]>>)
         \o flatten(children, node_type, i + 1)

\* One round of the loop of _combine_and_leaves for the filters cond of a
\* child, with cc the combined_condition so far.  The outcome is
\* [stop, value]: stop is "none" (return None), "empty" (return the leaf
\* of FilterCondition()) or "go" (carry on with the combined_condition
\* value).  The checks come in the order of the code.
combine_step(cc, cond) ==
    LET fav_conflict == cond.is_favorite # None /\ cc.is_favorite # None
        c1 == IF cond.is_favorite # None
              THEN [cc EXCEPT !.is_favorite = cond.is_favorite] ELSE cc
        types == IF cond.asset_types = None THEN c1.asset_types
                 ELSE IF c1.asset_types # None
                      THEN Some(c1.asset_types[1] \cap cond.asset_types[1])
                      ELSE cond.asset_types
        types_empty == cond.asset_types # None /\ c1.asset_types # None
                       /\ types[1] = {}
        c2 == [c1 EXCEPT !.asset_types = types]
        make_conflict == TruthyStr(cond.camera_make) /\ TruthyStr(c2.camera_make)
                         /\ c2.camera_make # cond.camera_make
        c3 == IF TruthyStr(cond.camera_make)
              THEN [c2 EXCEPT !.camera_make = cond.camera_make] ELSE c2
        model_conflict == TruthyStr(cond.camera_model) /\ TruthyStr(c3.camera_model)
                          /\ c3.camera_model # cond.camera_model
        c4 == IF TruthyStr(cond.camera_model)
              THEN [c3 EXCEPT !.camera_model = cond.camera_model] ELSE c3
        people_conflict == TruthyList(cond.person_ids) /\ c4.person_ids # None
        c5 == IF TruthyList(cond.person_ids)
              THEN [c4 EXCEPT !.person_ids = cond.person_ids] ELSE c4
    IN IF fav_conflict THEN [stop |-> "none", value |-> cc]
       ELSE IF types_empty THEN [stop |-> "empty", value |-> cc]
       ELSE IF make_conflict \/ model_conflict \/ people_conflict
            THEN [stop |-> "none", value |-> cc]
       ELSE [stop |-> "go", value |-> c5]

\* The loop of _combine_and_leaves from child i on.
RECURSIVE combine_loop(_, _, _)
combine_loop(children, i, cc) ==
    IF i > Len(children) THEN Some(Leaf(cc))
    ELSE IF children[i].condition = None THEN combine_loop(children, i + 1, cc)
    ELSE LET step == combine_step(cc, children[i].condition[1])
         IN IF step.stop = "none" THEN None
            ELSE IF step.stop = "empty" THEN Some(Leaf(FilterCondition))
            ELSE combine_loop(children, i + 1, step.value)

\* _combine_and_leaves: None, or Some(the combined leaf).
combine_and_leaves(node) ==
    IF \E i \in 1..Len(node.children) : node.children[i].node_type # "leaf"
    THEN None
    ELSE combine_loop(node.children, 1, FilterCondition)

\* optimize leaving same-type children where they are.
optimize_node_unflattened(node, optimized_children) ==
    LET is_op == node.node_type \in {"and", "or"}
        self == [node EXCEPT !.children = optimized_children]
        combined == IF node.node_type = "and" THEN combine_and_leaves(self) ELSE None
    IN IF combined # None THEN combined[1]
       ELSE IF is_op /\ Len(optimized_children) = 1 THEN optimized_children[1]
       ELSE IF is_op /\ Len(optimized_children) = 0 THEN Leaf(FilterCondition)
       ELSE self

\* What optimize does to a node whose children are already optimized.
optimize_node(node, optimized_children) ==
    LET is_op == node.node_type \in {"and", "or"}
        children == IF is_op THEN flatten(optimized_children, node.node_type, 1)
                    ELSE optimized_children
        self == [node EXCEPT !.children = children]
        combined == IF node.node_type = "and" THEN combine_and_leaves(self) ELSE None
    IN IF combined # None THEN combined[1]
       ELSE IF is_op /\ Len(children) = 1 THEN children[1]
       ELSE IF is_op /\ Len(children) = 0 THEN Leaf(FilterCondition)
       ELSE self

RECURSIVE optimize(_)

\* optimize without the recursive pass over the children.
optimize_shallow(node) ==
    optimize_node(node, node.children)

optimize(node) ==
    optimize_node(node, [i \in 1..Len(node.children) |-> optimize(node.children[i])])

-----------------------------------------------------------------------------
(* FuzzyMatcher (fuzzy_matcher.py)                                         *)
(* Timestamps are minutes on one UTC scale; a negative value of a date     *)
(* field stands for a text dateutil cannot parse.  Latitudes and           *)
(* longitudes are counted in steps of 0.0005 degrees from 0.               *)

MAX_FUZZY_SEEDS == 50
PARALLEL_WORKERS == 10
time_window_minutes == 240
location_radius_meters == 100

\* self.time_window, in minutes.
time_window == time_window_minutes

\* The photographs the matcher's server holds: the asset documents of
\* GET /assets/{id} (dateTimeOriginal, latitude and longitude are the
\* exifInfo entries) and the dates the server searches by.
PhotoIds == {"p1", "p2", "p3", "p4", "p5", "p6", "p7"}

\* A run of photographs of one event, more of them than the seed cap.
BurstIds == {"b" \o ToString(i) : i \in 1..(MAX_FUZZY_SEEDS + 1)}

Photo(exif_date, file_created, file_modified, lat, lon, taken, created, type) ==
    [dateTimeOriginal |-> exif_date, fileCreatedAt |-> file_created,
     fileModifiedAt |-> file_modified, latitude |-> lat, longitude |-> lon,
     takenAt |-> taken, createdAt |-> created, type |-> type]

Photos ==
    [a \in PhotoIds \cup BurstIds |->
        CASE a = "p1" -> Photo(Some(1000), Some(1001), None, Some(1), Some(1), 1000, 5000, "IMAGE")
          [] a = "p2" -> Photo(Some(1100), None, None, Some(1), Some(2), 1100, 5100, "VIDEO")
          [] a = "p3" -> Photo(Some(-1), Some(1200), None, Some(1), Some(3), 1200, 5200, "IMAGE")
          [] a = "p4" -> Photo(None, None, Some(1300), None, None, 1300, 5300, "IMAGE")
          [] a = "p5" -> Photo(Some(1150), None, None, Some(0), Some(3), 1150, 5150, "IMAGE")
          [] a = "p6" -> Photo(None, Some(-1), None, Some(1), Some(1), 1050, 5050, "IMAGE")
          [] a = "p7" -> Photo(Some(2000), None, None, Some(1), Some(1), 2000, 1100, "VIDEO")
          [] OTHER    -> Photo(Some(3000), None, None, None, None, 3000, 7000, "IMAGE")]

\* search_assets against these photographs.
search_photos(p) ==
    LET filter_by_type == p.asset_types # None \/ p.default_to_image
        asset_types == IF p.asset_types # None THEN p.asset_types[1]
                       ELSE IF p.default_to_image THEN {"IMAGE"} ELSE {}
    IN {a \in DOMAIN Photos :
          /\ ServerMatchesRecord(Photos[a], p)
          /\ filter_by_type => Photos[a].type \in asset_types}

\* Python truthiness of an Optional number: None and 0 are false.
TruthyNum(x) == x # None /\ x[1] # 0

\* A date field that is there and that parse_iso8601 accepts.
Parses(s) == s # None /\ s[1] >= 0

AssetMetadata(asset_id, timestamp, latitude, longitude) ==
    [asset_id |-> asset_id, timestamp |-> timestamp,
     latitude |-> latitude, longitude |-> longitude]

\* _extract_metadata: None when the asset has no usable timestamp.
extract_metadata(asset_id, asset) ==
    LET timestamp ==
            IF Parses(asset.dateTimeOriginal) THEN asset.dateTimeOriginal
            ELSE IF Parses(asset.fileCreatedAt) THEN asset.fileCreatedAt
            ELSE IF Parses(asset.fileModifiedAt) THEN asset.fileModifiedAt
            ELSE None
    IN IF timestamp = None THEN None
       ELSE Some(AssetMetadata(asset_id, timestamp, asset.latitude, asset.longitude))

\* fetch_single: what the worker task of one asset returns.  fails is the
\* set of assets whose get_asset_metadata request raises.
fetch_single(asset_id, fails) ==
    IF asset_id \in fails
    THEN [raised |-> FALSE, value |-> None]
    ELSE [raised |-> FALSE, value |-> extract_metadata(asset_id, Photos[asset_id])]

\* _fetch_asset_metadata: the metadata of the assets whose task returned
\* one.  The list is a set here: the matcher only iterates it and takes
\* the least and greatest timestamp.
fetch_asset_metadata(asset_ids, fails) ==
    {fetch_single(a, fails).value[1] :
        a \in {b \in asset_ids : fetch_single(b, fails).value # None}}

Min(S) == CHOOSE x \in S : \A y \in S : x <= y
Max(S) == CHOOSE x \in S : \A y \in S : x >= y

\* _calculate_time_boundaries clamping the start of the window only.
calculate_time_boundaries_open_end(metadata_list, filters) ==
    LET timestamps == {m.timestamp[1] : m \in {x \in metadata_list : x.timestamp # None}}
        start0 == Min(timestamps) - time_window
        start1 == IF filters.taken_after # None
                  THEN Max({start0, filters.taken_after[1]}) ELSE start0
        start2 == IF filters.created_after # None
                  THEN Max({start1, filters.created_after[1]}) ELSE start1
    IN IF timestamps = {}
       THEN [raised |-> TRUE, start_time |-> 0, end_time |-> 0]
       ELSE [raised |-> FALSE, start_time |-> start2,
             end_time |-> Max(timestamps) + time_window]

\* _calculate_time_boundaries: raises ValueError without a timestamp.
calculate_time_boundaries(metadata_list, filters) ==
    LET timestamps == {m.timestamp[1] : m \in {x \in metadata_list : x.timestamp # None}}
        start0 == Min(timestamps) - time_window
        end0 == Max(timestamps) + time_window
        start1 == IF filters.taken_after # None
                  THEN Max({start0, filters.taken_after[1]}) ELSE start0
        end1 == IF filters.taken_before # None
                THEN Min({end0, filters.taken_before[1]}) ELSE end0
        start2 == IF filters.created_after # None
                  THEN Max({start1, filters.created_after[1]}) ELSE start1
        end2 == IF filters.created_before # None
                THEN Min({end1, filters.created_before[1]}) ELSE end1
    IN IF timestamps = {}
       THEN [raised |-> TRUE, start_time |-> 0, end_time |-> 0]
       ELSE [raised |-> FALSE, start_time |-> start2, end_time |-> end2]

\* The search of _query_candidates always made by taken date.
candidate_query_by_taken(start_time, end_time, filters) ==
    [SearchDefaults EXCEPT !.taken_after = Some(start_time),
                           !.taken_before = Some(end_time),
                           !.asset_types = Some({"IMAGE", "VIDEO"}),
                           !.default_to_image = FALSE]

\* The search _query_candidates issues.
candidate_query(start_time, end_time, filters) ==
    LET use_taken_date == \/ filters.taken_after # None
                          \/ filters.taken_before # None
    IN IF use_taken_date
       THEN [SearchDefaults EXCEPT !.taken_after = Some(start_time),
                                   !.taken_before = Some(end_time),
                                   !.asset_types = Some({"IMAGE", "VIDEO"}),
                                   !.default_to_image = FALSE]
       ELSE [SearchDefaults EXCEPT !.created_after = Some(start_time),
                                   !.created_before = Some(end_time),
                                   !.asset_types = Some({"IMAGE", "VIDEO"}),
                                   !.default_to_image = FALSE]

\* _query_candidates: the empty set when the search raises.
query_candidates(start_time, end_time, filters, search_raises) ==
    IF search_raises THEN {}
    ELSE search_photos(candidate_query(start_time, end_time, filters))

Abs(x) == IF x < 0 THEN 0 - x ELSE x
Isqrt(n) == CHOOSE r \in 0..n : r * r <= n /\ (r + 1) * (r + 1) > n

\* _haversine_distance in whole metres.  One step of 0.0005 degrees is
\* R * radians(0.0005) = 55.597 m (55.597^2 = 3091); within a few steps of
\* latitude 0 the haversine formula gives 55.597 * sqrt(dlat^2 + dlon^2)
\* to the centimetre.
haversine_distance(lat1, lon1, lat2, lon2) ==
    LET dlat == Abs(lat2 - lat1)
        dlon == Abs(lon2 - lon1)
    IN Isqrt(3091 * (dlat * dlat + dlon * dlon))

\* One seed vouches for a candidate: close in time and, when both have
\* coordinates, close in space.
within_proximity(candidate, exact) ==
    /\ exact.timestamp # None
    /\ Abs(candidate.timestamp[1] - exact.timestamp[1]) <= time_window
    /\ (/\ TruthyNum(candidate.latitude) /\ TruthyNum(candidate.longitude)
        /\ TruthyNum(exact.latitude) /\ TruthyNum(exact.longitude))
       => haversine_distance(candidate.latitude[1], candidate.longitude[1],
                             exact.latitude[1], exact.longitude[1])
            <= location_radius_meters

\* _filter_by_proximity
filter_by_proximity(candidate_ids, seeds, fails) ==
    IF candidate_ids = {} THEN {}
    ELSE {c.asset_id :
            c \in {m \in fetch_asset_metadata(candidate_ids, fails) :
                      /\ m.timestamp # None
                      /\ \E exact \in seeds : within_proximity(m, exact)}}

\* Steps 4 and 5 of find_related_assets leaving out the seeds only.
related_assets_minus_seeds(candidate_ids, seeds, exact_ids, seed_ids, fails) ==
    filter_by_proximity(candidate_ids, seeds, fails) \ seed_ids

\* Steps 4 and 5 of find_related_assets: the candidates in proximity of a
\* seed, without the exact matches.
related_assets(candidate_ids, seeds, exact_ids, seed_ids, fails) ==
    filter_by_proximity(candidate_ids, seeds, fails) \ exact_ids

\* random.sample(list(ids), k): every k-element subset may come out.
RECURSIVE Samples(_, _)
Samples(ids, k) ==
    IF Cardinality(ids) <= k THEN {ids}
    ELSE UNION {Samples(ids \ {x}, k) : x \in ids}

\* find_related_assets as a whole, for the seeds that were sampled and the
\* requests that fail: the early returns of steps 1 and 3, then the
\* candidates in proximity without the exact matches.
find_related_assets(exact_ids, filters, sample, fails, search_raises) ==
    IF exact_ids = {} THEN {}
    ELSE LET metadata == fetch_asset_metadata(sample, fails)
         IN IF metadata = {} THEN {}
            ELSE LET b == calculate_time_boundaries(metadata, filters)
                     found == query_candidates(b.start_time, b.end_time, filters,
                                               search_raises)
                 IN IF found = {} THEN {}
                    ELSE related_assets(found, metadata, exact_ids, sample, fails)

-----------------------------------------------------------------------------
(* Database.album_memberships (database.py)                                *)

\* A row of album_memberships; (rule_id, album_id, asset_id) is its key.
Membership(rule_id, album_id, asset_id, match_type) ==
    [rule_id |-> rule_id, album_id |-> album_id, asset_id |-> asset_id,
     match_type |-> match_type]

\* get_album_assets_for_rule selecting by the album alone.
get_album_assets_for_album(rows, rule_id, album_id) ==
    {m.asset_id : m \in {x \in rows : x.album_id = album_id}}

\* get_album_assets_for_rule: the keys of the dict it returns.
get_album_assets_for_rule(rows, rule_id, album_id) ==
    {m.asset_id : m \in {x \in rows : x.rule_id = rule_id /\ x.album_id = album_id}}

\* record_album_membership: INSERT OR IGNORE, one row per asset.
record_album_membership(rows, rule_id, album_id, asset_ids, match_type) ==
    rows \cup {Membership(rule_id, album_id, a, match_type) :
                  a \in asset_ids \ get_album_assets_for_rule(rows, rule_id, album_id)}

\* remove_album_memberships: DELETE of the rows of the assets.
remove_album_memberships(rows, rule_id, album_id, asset_ids) ==
    {m \in rows : ~(m.rule_id = rule_id /\ m.album_id = album_id
                      /\ m.asset_id \in asset_ids)}

-----------------------------------------------------------------------------
(* Inputs                                                                  *)

\* The leaf configurations rules are written with here.
LeafConfigs ==
    { EmptyConfig,
      [EmptyConfig EXCEPT !.is_favorite = Some(TRUE)],
      [EmptyConfig EXCEPT !.asset_types = Some({"image"})],
      [EmptyConfig EXCEPT !.asset_types = Some({"video"})],
      [EmptyConfig EXCEPT !.people = Some([include |-> <<"Jay">>]),
                          !.camera = Some([make |-> Some("Apple"), model |-> None])],
      [EmptyConfig EXCEPT !.people = Some([include |-> <<"Nobody">>]),
                          !.is_favorite = Some(TRUE)],
      [EmptyConfig EXCEPT !.resolution = Some([include |-> <<(<<1920, 1080>>)>>])] }

\* The configurations with exactly n nodes, and the non-empty operand
\* lists whose configurations have n nodes together.
RECURSIVE ConfigsOfSize(_)
RECURSIVE OperandsOfSize(_)
OperandsOfSize(n) ==
    UNION { LET firsts == ConfigsOfSize(k)
                rests == IF k = n THEN {<<>>} ELSE OperandsOfSize(n - k)
            IN { <<c>> \o rest : c \in firsts, rest \in rests }
            : k \in 1..n }
ConfigsOfSize(n) ==
    IF n = 1 THEN LeafConfigs
    ELSE LET operands == OperandsOfSize(n - 1)
         IN { [EmptyConfig EXCEPT ![op] = Some(List(ops))] :
                 op \in {"and", "or"}, ops \in operands }

Configs == UNION { ConfigsOfSize(n) : n \in 1..MaxNodes }

NoDates == [taken_after |-> None, taken_before |-> None,
            created_after |-> None, created_before |-> None]

\* date_filters arguments of evaluate: None for a rule without date range,
\* else the dict Rule.execute builds from the rule's range.
DateFilterInputs ==
    { None, Some([NoDates EXCEPT !.taken_after = Some(2)]) }

\* base_assets arguments of evaluate: None (no date-range query was made),
\* or the set a date-range query returned.
BaseInputs ==
    { None, Some({"a2", "a3", "a4"}) }

-----------------------------------------------------------------------------
(* The state machine                                                       *)

\* A Rule without date range and without fuzzy_match.
NoRule == [fuzzy_match |-> None, taken_after |-> None, taken_before |-> None,
           created_after |-> None, created_before |-> None]

\* No sync_rule call is under way.
SyncIdle ==
    /\ rule = NoRule
    /\ global_fuzzy_match = FALSE
    /\ desired_asset_ids = {}
    /\ fetch_fails = {}
    /\ spc = "idle"
    /\ fuzzy_asset_ids = {}
    /\ all_asset_ids = None

\* No find_related_assets call is under way.
MatcherIdle ==
    /\ fpc = "idle"
    /\ exact_match_ids = {}
    /\ rule_date_filters = NoDates
    /\ sampled_ids = {}
    /\ exact_metadata = {}
    /\ boundaries = None
    /\ queries = <<>>
    /\ candidates = {}
    /\ fuzzy_matches = None

\* No batch of metadata requests is under way.
FetchIdle ==
    /\ batch_kind = "none"
    /\ batch_asset_ids = {}
    /\ batch_targets = <<>>
    /\ asset_id_list = <<>>
    /\ futures = <<>>
    /\ future_results = <<>>
    /\ next_future = 1
    /\ collected = <<>>
    /\ requests = {}
    /\ completion_order = <<>>
    /\ bpc = "idle"

\* A RuleEngine as constructed (mode "add_only"), no album, an empty
\* database and no sync_rule call so far.
NoStats == [assets_added |-> 0, assets_removed |-> 0]
AlbumIdle ==
    /\ mode = "add_only"
    /\ user_resolver = FALSE
    /\ global_share_user_ids = None
    /\ server_exact = {}
    /\ album = None
    /\ album_assets = {}
    /\ album_users = {}
    /\ album_memberships = {}
    /\ analyzed_assets = {}
    /\ dry_run = FALSE
    /\ trouble = "none"
    /\ stats = NoStats
    /\ add_requests = <<>>
    /\ remove_requests = <<>>
    /\ albums_created = 0
    /\ sharing_updates = 0
    /\ sync_calls = 0

\* Not a rule in the old filters format.
LegacyIdle == rule_filters = None

\* overall_stats as sync_all starts with it.
NoOverallStats ==
    [rules_processed |-> 0, total_assets_added |-> 0, total_assets_removed |-> 0,
     errors |-> <<>>]

\* sync_all is not running.
AllIdle ==
    /\ rules = <<>>
    /\ raising = {}
    /\ attempted = <<>>
    /\ overall_stats = NoOverallStats
    /\ apc = "idle"

\* No condition tree is being built or evaluated.
ConditionIdle ==
    /\ config = EmptyConfig
    /\ people_resolver = None
    /\ date_filters = None
    /\ condition_tree = None
    /\ pc = "idle"
    /\ base_assets = None
    /\ result = None
    /\ calls = <<>>
    /\ resolve_calls = 0
    /\ ctor = None

Init ==
    /\ config \in Configs
    /\ people_resolver = Some(name_to_id)
    /\ date_filters \in DateFilterInputs
    /\ condition_tree = None
    /\ pc = "config"
    /\ base_assets = None
    /\ result = None
    /\ calls = <<>>
    /\ resolve_calls = 0
    /\ ctor = None
    /\ SyncIdle
    /\ MatcherIdle
    /\ FetchIdle
    /\ AlbumIdle
    /\ LegacyIdle
    /\ AllIdle

\* Rule.__init__: self.condition_tree = ConditionNode.from_config(...);
\* a ValueError leaves the rule without a tree.
FromConfig ==
    /\ pc = "config"
    /\ ctor = None
    /\ IF from_config(config, people_resolver) = ValueError
       THEN /\ pc' = "error"
            /\ resolve_calls' = resolve_calls + resolver_calls_raised(config, people_resolver)
            /\ UNCHANGED condition_tree
       ELSE /\ condition_tree' = Some(from_config(config, people_resolver))
            /\ resolve_calls' = resolve_calls + resolver_calls(config, people_resolver)
            /\ pc' = "built"
    /\ UNCHANGED <<config, people_resolver, base_assets, date_filters, result, calls, ctor>>
    /\ UNCHANGED <<sync_vars, matcher_vars, fetch_vars>>
    /\ UNCHANGED album_vars
    /\ UNCHANGED legacy_vars
    /\ UNCHANGED all_vars

\* Rule.__init__: self.condition_tree = self.condition_tree.optimize(),
\* once, before the tree is evaluated.
Optimize ==
    /\ pc = "built"
    /\ result = None
    /\ condition_tree' = Some(optimize(condition_tree[1]))
    /\ pc' = "optimized"
    /\ UNCHANGED <<config, people_resolver, base_assets, date_filters, result, calls,
                   resolve_calls, ctor>>
    /\ UNCHANGED <<sync_vars, matcher_vars, fetch_vars>>
    /\ UNCHANGED album_vars
    /\ UNCHANGED legacy_vars
    /\ UNCHANGED all_vars

\* condition_tree.evaluate(client, base_assets, date_filters)
Evaluate ==
    /\ pc \in {"built", "optimized"}
    /\ \E base \in BaseInputs :
          LET out == evaluate(condition_tree[1], base, date_filters)
          IN /\ base_assets' = base
             /\ result' = Some(out.result)
             /\ calls' = out.calls
    /\ UNCHANGED <<config, people_resolver, date_filters, condition_tree, pc,
                   resolve_calls, ctor>>
    /\ UNCHANGED <<sync_vars, matcher_vars, fetch_vars>>
    /\ UNCHANGED album_vars
    /\ UNCHANGED legacy_vars
    /\ UNCHANGED all_vars

Next == FromConfig \/ Optimize \/ Evaluate

Spec == Init /\ [][Next]_vars

-----------------------------------------------------------------------------
(* Construction of condition trees from configurations that may be wrong  *)

MaxRawNodes == 3

\* The smallest configurations: leaves, a value that is no mapping, an
\* "and" or "or" whose value is no list, and one with an empty list.
RawAtoms ==
    { EmptyConfig,
      [EmptyConfig EXCEPT !.people = Some([include |-> <<"Jay">>])],
      [EmptyConfig EXCEPT !.type = "str"],
      [EmptyConfig EXCEPT !["and"] = Some(NotAList)],
      [EmptyConfig EXCEPT !["or"] = Some(NotAList)],
      [EmptyConfig EXCEPT !["and"] = Some(List(<<>>))],
      [EmptyConfig EXCEPT !["or"] = Some(List(<<>>))] }

\* The configurations of exactly n such pieces, and the non-empty operand
\* lists of n pieces together.
RECURSIVE RawConfigsOfSize(_)
RECURSIVE RawOperandsOfSize(_)
RawOperandsOfSize(n) ==
    UNION { LET firsts == RawConfigsOfSize(k)
                rests == IF k = n THEN {<<>>} ELSE RawOperandsOfSize(n - k)
            IN { <<c>> \o rest : c \in firsts, rest \in rests }
            : k \in 1..n }
RawConfigsOfSize(n) ==
    IF n = 1 THEN RawAtoms
    ELSE LET operands == RawOperandsOfSize(n - 1)
         IN { [EmptyConfig EXCEPT ![op] = Some(List(ops))] :
                 op \in {"and", "or"}, ops \in operands }

RawConfigs == UNION { RawConfigsOfSize(n) : n \in 1..MaxRawNodes }

\* The arguments of a direct ConditionNode(node_type, children, condition)
\* call; children None is the empty list.
CtorInputs ==
    [node_type : {"and", "or", "leaf"},
     children : {<<>>, <<Leaf(FilterCondition)>>},
     condition : {None, Some(FilterCondition)}]

InitBuild ==
    /\ \/ /\ config \in RawConfigs
          /\ ctor = None
       \/ /\ config = EmptyConfig
          /\ ctor \in {Some(c) : c \in CtorInputs}
    /\ people_resolver \in {None, Some(name_to_id)}
    /\ date_filters = None
    /\ condition_tree = None
    /\ pc = "config"
    /\ base_assets = None
    /\ result = None
    /\ calls = <<>>
    /\ resolve_calls = 0
    /\ SyncIdle
    /\ MatcherIdle
    /\ FetchIdle
    /\ AlbumIdle
    /\ LegacyIdle
    /\ AllIdle

\* ConditionNode(node_type, children, condition), called directly.
Construct ==
    /\ pc = "config"
    /\ ctor # None
    /\ LET node == ConditionNode(ctor[1].node_type, ctor[1].children, ctor[1].condition)
       IN IF node = ValueError
          THEN /\ pc' = "error"
               /\ UNCHANGED condition_tree
          ELSE /\ condition_tree' = Some(node)
               /\ pc' = "built"
    /\ UNCHANGED <<config, people_resolver, base_assets, date_filters, result, calls,
                   resolve_calls, ctor>>
    /\ UNCHANGED <<sync_vars, matcher_vars, fetch_vars>>
    /\ UNCHANGED album_vars
    /\ UNCHANGED legacy_vars
    /\ UNCHANGED all_vars

NextBuild == FromConfig \/ Construct

SpecBuild == InitBuild /\ [][NextBuild]_vars

-----------------------------------------------------------------------------
(* Optimization of deeper trees over few kinds of leaves                   *)

MaxShapeNodes == 5

\* Two leaves that _combine_and_leaves merges, of which the first cannot
\* be merged with itself.
ShapeLeaves ==
    { [EmptyConfig EXCEPT !.is_favorite = Some(TRUE)],
      [EmptyConfig EXCEPT !.asset_types = Some({"image"})] }

RECURSIVE ShapeConfigsOfSize(_)
RECURSIVE ShapeOperandsOfSize(_)
ShapeOperandsOfSize(n) ==
    UNION { LET firsts == ShapeConfigsOfSize(k)
                rests == IF k = n THEN {<<>>} ELSE ShapeOperandsOfSize(n - k)
            IN { <<c>> \o rest : c \in firsts, rest \in rests }
            : k \in 1..n }
ShapeConfigsOfSize(n) ==
    IF n = 1 THEN ShapeLeaves
    ELSE LET operands == ShapeOperandsOfSize(n - 1)
         IN { [EmptyConfig EXCEPT ![op] = Some(List(ops))] :
                 op \in {"and", "or"}, ops \in operands }

ShapeConfigs == UNION { ShapeConfigsOfSize(n) : n \in 1..MaxShapeNodes }

InitShape ==
    /\ config \in ShapeConfigs
    /\ people_resolver = None
    /\ date_filters = None
    /\ condition_tree = None
    /\ pc = "config"
    /\ base_assets = None
    /\ result = None
    /\ calls = <<>>
    /\ resolve_calls = 0
    /\ ctor = None
    /\ SyncIdle
    /\ MatcherIdle
    /\ FetchIdle
    /\ AlbumIdle
    /\ LegacyIdle
    /\ AllIdle

NextShape == FromConfig \/ Optimize

SpecShape == InitShape /\ [][NextShape]_vars

-----------------------------------------------------------------------------
(* RuleEngine.sync_rule up to the set it reconciles, and the steps of      *)
(* FuzzyMatcher.find_related_assets it calls.                              *)

\* The rules synced here: every fuzzy_match setting with every kind of
\* date range.
DateRanges ==
    { NoDates,
      [NoDates EXCEPT !.taken_after = Some(900)],
      [NoDates EXCEPT !.taken_before = Some(1250)],
      [NoDates EXCEPT !.taken_after = Some(900), !.taken_before = Some(1250)],
      [NoDates EXCEPT !.created_after = Some(5100)],
      [NoDates EXCEPT !.created_after = Some(4000), !.created_before = Some(5200)],
      [NoDates EXCEPT !.created_before = Some(5200)],
      [NoDates EXCEPT !.taken_after = Some(1100), !.created_before = Some(5200)] }

RuleInputs ==
    { [fuzzy_match |-> fm, taken_after |-> d.taken_after, taken_before |-> d.taken_before,
       created_after |-> d.created_after, created_before |-> d.created_before] :
      fm \in {None, Some(TRUE), Some(FALSE)}, d \in DateRanges }

\* What rule.execute may have returned.
DesiredInputs ==
    {ids \in SUBSET PhotoIds : Cardinality(ids) <= 2} \cup {PhotoIds, BurstIds}

FetchFailInputs == { {}, {"p2", "b1"} }

InitSync ==
    /\ ConditionIdle
    /\ MatcherIdle
    /\ FetchIdle
    /\ rule \in RuleInputs
    /\ global_fuzzy_match \in BOOLEAN
    /\ desired_asset_ids \in DesiredInputs
    /\ fetch_fails \in FetchFailInputs
    /\ spc = "start"
    /\ fuzzy_asset_ids = {}
    /\ all_asset_ids = None
    /\ AlbumIdle
    /\ LegacyIdle
    /\ AllIdle

\* fuzzy_enabled with the global setting winning over an explicit False.
fuzzy_enabled_or(r, global) ==
    (r.fuzzy_match # None /\ r.fuzzy_match[1]) \/ global

\* fuzzy_enabled = rule.fuzzy_match if rule.fuzzy_match is not None
\*                 else global_fuzzy_match
fuzzy_enabled(r, global) ==
    IF r.fuzzy_match # None THEN r.fuzzy_match[1] ELSE global

\* The date filters dict sync_rule builds for the matcher.
matcher_date_filters(r) ==
    [taken_after |-> r.taken_after, taken_before |-> r.taken_before,
     created_after |-> r.created_after, created_before |-> r.created_before]

\* sync_rule: the exact matches are in; the matcher is called when fuzzy
\* matching is enabled and there are exact matches.
SyncRuleMatch ==
    /\ spc = "start"
    /\ IF fuzzy_enabled(rule, global_fuzzy_match) /\ desired_asset_ids # {}
       THEN /\ spc' = "matching"
            /\ fpc' = "called"
            /\ exact_match_ids' = desired_asset_ids
            /\ rule_date_filters' = matcher_date_filters(rule)
       ELSE /\ spc' = "combine"
            /\ UNCHANGED <<fpc, exact_match_ids, rule_date_filters>>
    /\ UNCHANGED <<rule, global_fuzzy_match, desired_asset_ids, fetch_fails,
                   fuzzy_asset_ids, all_asset_ids>>
    /\ UNCHANGED <<sampled_ids, exact_metadata, boundaries, queries, candidates,
                   fuzzy_matches>>
    /\ UNCHANGED <<condition_vars, fetch_vars>>
    /\ UNCHANGED album_vars
    /\ UNCHANGED legacy_vars
    /\ UNCHANGED all_vars

\* find_related_assets, entry: nothing to do without exact matches; the
\* seeds are a sample when there are more exact matches than the cap.
SampleSeeds ==
    /\ fpc = "called"
    /\ IF exact_match_ids = {}
       THEN /\ fuzzy_matches' = Some({})
            /\ fpc' = "returned"
            /\ UNCHANGED sampled_ids
       ELSE /\ sampled_ids' \in Samples(exact_match_ids, MAX_FUZZY_SEEDS)
            /\ fpc' = "sampled"
            /\ UNCHANGED fuzzy_matches
    /\ UNCHANGED <<exact_match_ids, rule_date_filters, exact_metadata, boundaries,
                   queries, candidates>>
    /\ UNCHANGED <<condition_vars, sync_vars, fetch_vars>>
    /\ UNCHANGED album_vars
    /\ UNCHANGED legacy_vars
    /\ UNCHANGED all_vars

\* Step 1 without the check for an empty metadata list.
FetchExactMetadataUnchecked ==
    /\ fpc = "sampled"
    /\ exact_metadata' = fetch_asset_metadata(sampled_ids, fetch_fails)
    /\ fpc' = "fetched"
    /\ UNCHANGED <<exact_match_ids, rule_date_filters, sampled_ids, boundaries,
                   queries, candidates, fuzzy_matches>>
    /\ UNCHANGED <<condition_vars, sync_vars, fetch_vars>>
    /\ UNCHANGED album_vars
    /\ UNCHANGED legacy_vars
    /\ UNCHANGED all_vars

\* Step 1: the metadata of the seeds; without any, the empty set is returned.
FetchExactMetadata ==
    /\ fpc = "sampled"
    /\ exact_metadata' = fetch_asset_metadata(sampled_ids, fetch_fails)
    /\ IF exact_metadata' = {}
       THEN fuzzy_matches' = Some({}) /\ fpc' = "returned"
       ELSE fpc' = "fetched" /\ UNCHANGED fuzzy_matches
    /\ UNCHANGED <<exact_match_ids, rule_date_filters, sampled_ids, boundaries,
                   queries, candidates>>
    /\ UNCHANGED <<condition_vars, sync_vars, fetch_vars>>
    /\ UNCHANGED album_vars
    /\ UNCHANGED legacy_vars
    /\ UNCHANGED all_vars

\* Step 2: the time window; the ValueError leaves find_related_assets.
CalculateTimeBoundaries ==
    /\ fpc = "fetched"
    /\ LET b == calculate_time_boundaries(exact_metadata, rule_date_filters)
       IN IF b.raised
          THEN fpc' = "raised" /\ UNCHANGED boundaries
          ELSE fpc' = "bounded" /\ boundaries' = Some(b)
    /\ UNCHANGED <<exact_match_ids, rule_date_filters, sampled_ids, exact_metadata,
                   queries, candidates, fuzzy_matches>>
    /\ UNCHANGED <<condition_vars, sync_vars, fetch_vars>>
    /\ UNCHANGED album_vars
    /\ UNCHANGED legacy_vars
    /\ UNCHANGED all_vars

\* Step 3: the candidates of the window; without any, the empty set is
\* returned.  The search may fail.
QueryCandidates ==
    /\ fpc = "bounded"
    /\ \E search_raises \in BOOLEAN :
          candidates' = query_candidates(boundaries[1].start_time, boundaries[1].end_time,
                                         rule_date_filters, search_raises)
    /\ queries' = Append(queries, candidate_query(boundaries[1].start_time,
                                                  boundaries[1].end_time, rule_date_filters))
    /\ IF candidates' = {}
       THEN fuzzy_matches' = Some({}) /\ fpc' = "returned"
       ELSE fpc' = "queried" /\ UNCHANGED fuzzy_matches
    /\ UNCHANGED <<exact_match_ids, rule_date_filters, sampled_ids, exact_metadata,
                   boundaries>>
    /\ UNCHANGED <<condition_vars, sync_vars, fetch_vars>>
    /\ UNCHANGED album_vars
    /\ UNCHANGED legacy_vars
    /\ UNCHANGED all_vars

\* Steps 4 and 5, and the return.
FilterByProximity ==
    /\ fpc = "queried"
    /\ fuzzy_matches' = Some(related_assets(candidates, exact_metadata, exact_match_ids,
                                            sampled_ids, fetch_fails))
    /\ fpc' = "returned"
    /\ UNCHANGED <<exact_match_ids, rule_date_filters, sampled_ids, exact_metadata,
                   boundaries, queries, candidates>>
    /\ UNCHANGED <<condition_vars, sync_vars, fetch_vars>>
    /\ UNCHANGED album_vars
    /\ UNCHANGED legacy_vars
    /\ UNCHANGED all_vars

\* sync_rule: the fuzzy matches are those the matcher returned, none when
\* it raised or was not called; all_asset_ids is what gets reconciled.
SyncRuleCombine ==
    /\ \/ spc = "combine"
       \/ spc = "matching" /\ fpc \in {"returned", "raised"}
    /\ fuzzy_asset_ids' = IF spc = "matching" /\ fpc = "returned"
                          THEN fuzzy_matches[1] ELSE {}
    /\ all_asset_ids' = Some(desired_asset_ids \cup fuzzy_asset_ids')
    /\ spc' = "combined"
    /\ UNCHANGED <<rule, global_fuzzy_match, desired_asset_ids, fetch_fails>>
    /\ UNCHANGED <<condition_vars, matcher_vars, fetch_vars>>
    /\ UNCHANGED album_vars
    /\ UNCHANGED legacy_vars
    /\ UNCHANGED all_vars

NextSync ==
    \/ SyncRuleMatch
    \/ SampleSeeds
    \/ FetchExactMetadata
    \/ CalculateTimeBoundaries
    \/ QueryCandidates
    \/ FilterByProximity
    \/ SyncRuleCombine

SpecSync == InitSync /\ [][NextSync]_vars

-----------------------------------------------------------------------------
(* RuleEngine.sync_rule, called again and again for one rule while the     *)
(* server's library changes                                                *)

MaxSyncCalls == 2

\* The rule's id, the id the server gives its album, another rule with the
\* same album, and a user albums are shared with.
RuleId == "r1"
RuleAlbumId == "album1"
OtherRuleId == "r2"
ShareUser == "u1"

\* A rule with a taken_after date and no fuzzy_match of its own.
AlbumRule == [NoRule EXCEPT !.taken_after = Some(900)]

\* More exact matches than the seed cap, one of them far from the others
\* in time.
MixedBurst == (BurstIds \ {"b" \o ToString(MAX_FUZZY_SEEDS + 1)}) \cup {"p1"}

\* What rule.execute may find on the server.
ExactInputs == { {}, {"p1"}, {"p1", "p4"}, {"p6"}, MixedBurst }

\* What may go wrong in a call: a metadata request fails, the candidate
\* search fails, find_related_assets raises.
Troubles == {"none", "fetch", "search", "raise"}

\* The assets random.sample may leave out here.
SampleDrops == {"p1", "b1"}

\* The samples of the seeds drawn here.
SampleInputs(ids) ==
    {smp \in Samples(ids, MAX_FUZZY_SEEDS) : ids \ smp \subseteq SampleDrops}

InitAlbum ==
    /\ ConditionIdle
    /\ MatcherIdle
    /\ FetchIdle
    /\ rule = AlbumRule
    /\ global_fuzzy_match \in BOOLEAN
    /\ desired_asset_ids = {}
    /\ fetch_fails = {}
    /\ spc = "start"
    /\ fuzzy_asset_ids = {}
    /\ all_asset_ids = None
    /\ mode \in {"add_only", "sync"}
    /\ \/ user_resolver = FALSE /\ global_share_user_ids = None
       \/ user_resolver = TRUE /\ global_share_user_ids = Some({ShareUser})
    /\ server_exact \in ExactInputs
    /\ \/ /\ album = None
          /\ album_assets = {}
          /\ album_memberships = {}
       \/ /\ album = Some(RuleAlbumId)
          /\ album_assets = {"p3", "p4"}
          /\ album_memberships = {Membership(OtherRuleId, RuleAlbumId, "p3", "exact")}
    /\ album_users = {}
    /\ analyzed_assets = {}
    /\ dry_run = FALSE
    /\ trouble = "none"
    /\ stats = NoStats
    /\ add_requests = <<>>
    /\ remove_requests = <<>>
    /\ albums_created = 0
    /\ sharing_updates = 0
    /\ sync_calls = 0
    /\ LegacyIdle
    /\ AllIdle

\* fuzzy_asset_ids keeping what the matcher found although it raised.
matched_fuzzy_uncaught(enabled, desired, raised, found) ==
    IF enabled /\ desired # {} THEN found ELSE {}

\* fuzzy_asset_ids: what find_related_assets returned, the empty set when
\* it was not called or raised.
matched_fuzzy(enabled, desired, raised, found) ==
    IF enabled /\ desired # {} /\ ~raised THEN found ELSE {}

\* exact_to_add and fuzzy_to_add without the known assets taken out.
to_add_all(asset_ids, known_asset_ids) == asset_ids

\* exact_to_add = desired_asset_ids - known_asset_ids, and the same for
\* fuzzy_to_add.
to_add(asset_ids, known_asset_ids) == asset_ids \ known_asset_ids

\* to_remove computed in add_only mode too.
to_remove_any_mode(engine_mode, known_asset_ids, all_ids) == known_asset_ids \ all_ids

\* to_remove = known_asset_ids - all_asset_ids, in sync mode only.
to_remove(engine_mode, known_asset_ids, all_ids) ==
    IF engine_mode = "add_only" THEN {} ELSE known_asset_ids \ all_ids

\* The requests made for the non-empty sets among these.
NonEmpty(sets) == SelectSeq(sets, LAMBDA x : x # {})

\* sync_rule(rule, client, db, dry_run, ...), from rule.execute to the
\* returned stats.
SyncRule ==
    /\ sync_calls < MaxSyncCalls
    /\ \E dry \in BOOLEAN, t \in Troubles, sample \in SampleInputs(server_exact) :
       \E fuzzy \in {matched_fuzzy(fuzzy_enabled(rule, global_fuzzy_match), server_exact,
                                   t = "raise",
                                   find_related_assets(server_exact,
                                       matcher_date_filters(rule), sample,
                                       IF t = "fetch" THEN {"p2"} ELSE {},
                                       t = "search"))} :
        LET desired == server_exact
            fails == IF t = "fetch" THEN {"p2"} ELSE {}
            all_ids == desired \cup fuzzy
            share_ids == global_share_user_ids
            album_id == IF album # None THEN album
                        ELSE IF dry THEN None ELSE Some(RuleAlbumId)
            known_asset_ids ==
                IF album_id # None
                THEN get_album_assets_for_rule(album_memberships, RuleId, album_id[1])
                ELSE {}
            exact_to_add == to_add(desired, known_asset_ids)
            fuzzy_to_add == to_add(fuzzy, known_asset_ids)
            removed == to_remove(mode, known_asset_ids, all_ids)
            writes == all_ids # {} /\ album_id # None /\ ~dry
            recorded == record_album_membership(
                            record_album_membership(album_memberships, RuleId,
                                album_id[1], exact_to_add, "exact"),
                            RuleId, album_id[1], fuzzy_to_add, "fuzzy")
        IN /\ dry_run' = dry
           /\ trouble' = t
           /\ fetch_fails' = fails
           /\ desired_asset_ids' = desired
           /\ fuzzy_asset_ids' = fuzzy
           /\ all_asset_ids' = Some(all_ids)
           /\ analyzed_assets' = analyzed_assets \cup all_ids
           /\ album' = IF all_ids # {} THEN album_id ELSE album
           /\ albums_created' = IF all_ids # {} /\ album = None /\ ~dry
                                THEN albums_created + 1 ELSE albums_created
           /\ IF all_ids # {} /\ album = None /\ ~dry
              THEN /\ album_users' = IF share_ids # None THEN share_ids[1] ELSE {}
                   /\ UNCHANGED sharing_updates
              ELSE IF all_ids # {} /\ album # None /\ ~dry /\ user_resolver
                      /\ share_ids # None /\ album_users # share_ids[1]
              THEN /\ album_users' = share_ids[1]
                   /\ sharing_updates' = sharing_updates + 1
              ELSE UNCHANGED <<album_users, sharing_updates>>
           /\ IF writes
              THEN /\ add_requests' = NonEmpty(<<exact_to_add, fuzzy_to_add>>)
                   /\ remove_requests' = NonEmpty(<<removed>>)
                   /\ album_assets' = (album_assets \cup exact_to_add \cup fuzzy_to_add)
                                          \ removed
                   /\ album_memberships' =
                         remove_album_memberships(recorded, RuleId, album_id[1], removed)
                   /\ stats' = [assets_added |-> Cardinality(exact_to_add)
                                                     + Cardinality(fuzzy_to_add),
                                assets_removed |-> Cardinality(removed)]
              ELSE /\ add_requests' = <<>>
                   /\ remove_requests' = <<>>
                   /\ stats' = NoStats
                   /\ UNCHANGED <<album_assets, album_memberships>>
    /\ spc' = "returned"
    /\ sync_calls' = sync_calls + 1
    /\ UNCHANGED <<rule, global_fuzzy_match, mode, user_resolver, global_share_user_ids,
                   server_exact>>
    /\ UNCHANGED <<condition_vars, matcher_vars, fetch_vars>>
    /\ UNCHANGED legacy_vars
    /\ UNCHANGED all_vars

\* Between two calls the library changes: rule.execute finds other assets.
LibraryChange ==
    /\ sync_calls < MaxSyncCalls
    /\ server_exact' \in ExactInputs \ {server_exact}
    /\ UNCHANGED <<mode, user_resolver, global_share_user_ids, album, album_assets,
                   album_users, album_memberships, analyzed_assets, dry_run, trouble,
                   stats, add_requests, remove_requests, albums_created,
                   sharing_updates, sync_calls>>
    /\ UNCHANGED <<condition_vars, sync_vars, matcher_vars, fetch_vars>>
    /\ UNCHANGED legacy_vars
    /\ UNCHANGED all_vars

NextAlbum == SyncRule \/ LibraryChange

SpecAlbum == InitAlbum /\ [][NextAlbum]_vars

-----------------------------------------------------------------------------
(* A Rule in the old filters format: Rule.__init__ and Rule.execute        *)

\* RuleFilters(): the defaults.
RuleFilters ==
    [is_favorite |-> None, asset_types |-> {"IMAGE"}, camera_make |-> None,
     camera_model |-> None, include_people |-> <<>>, resolution |-> None]

\* RuleFilters.from_config(filters_config); a rule without filters section
\* and one with an empty section get the defaults.
rule_filters_from_config(cfg) ==
    IF cfg = EmptyConfig THEN RuleFilters
    ELSE [is_favorite |-> cfg.is_favorite,
          asset_types |-> IF cfg.asset_types # None
                          THEN {Upper(t) : t \in cfg.asset_types[1]}
                          ELSE {"IMAGE"},
          camera_make |-> IF cfg.camera # None THEN cfg.camera[1].make ELSE None,
          camera_model |-> IF cfg.camera # None THEN cfg.camera[1].model ELSE None,
          include_people |-> IF cfg.people # None THEN cfg.people[1].include ELSE <<>>,
          resolution |-> IF cfg.resolution # None /\ cfg.resolution[1].include # <<>>
                         THEN Some(cfg.resolution[1].include)
                         ELSE None]

\* Rule._convert_filters_to_tree: one leaf, its person_ids left unset.
convert_filters_to_tree(f) ==
    Leaf([FilterCondition EXCEPT !.is_favorite = f.is_favorite,
                                 !.asset_types = Some(f.asset_types),
                                 !.camera_make = f.camera_make,
                                 !.camera_model = f.camera_model,
                                 !.resolution = f.resolution])

\* The date_filters dict Rule.execute builds: None when it stays empty.
execute_date_filters(r) ==
    IF r.taken_after = None /\ r.taken_before = None
       /\ r.created_after = None /\ r.created_before = None
    THEN None
    ELSE Some([taken_after |-> r.taken_after, taken_before |-> r.taken_before,
               created_after |-> r.created_after, created_before |-> r.created_before])

\* The search Rule.execute makes for the base set of a rule with dates.
base_query(df) ==
    [SearchDefaults EXCEPT !.taken_after = df[1].taken_after,
                           !.taken_before = df[1].taken_before,
                           !.created_after = df[1].created_after,
                           !.created_before = df[1].created_before,
                           !.default_to_image = FALSE]

\* The people filters rules are written with.
PeopleInputs ==
    { None, Some([include |-> <<"Nobody">>]), Some([include |-> <<"Jay">>]),
      Some([include |-> <<"Jay", "Nobody">>]) }

\* The filters sections of the rules in the old format.
LegacyConfigs ==
    { [EmptyConfig EXCEPT !.people = people, !.is_favorite = favorite,
                          !.asset_types = types] :
        people \in PeopleInputs, favorite \in {None, Some(TRUE)},
        types \in {None, Some({"video"})} }

InitLegacy ==
    /\ config \in LegacyConfigs
    /\ people_resolver \in {None, Some(name_to_id)}
    /\ rule \in {NoRule, [NoRule EXCEPT !.taken_after = Some(2)]}
    /\ date_filters = None
    /\ condition_tree = None
    /\ rule_filters = None
    /\ pc = "config"
    /\ base_assets = None
    /\ result = None
    /\ calls = <<>>
    /\ resolve_calls = 0
    /\ ctor = None
    /\ global_fuzzy_match = FALSE
    /\ desired_asset_ids = {}
    /\ fetch_fails = {}
    /\ spc = "idle"
    /\ fuzzy_asset_ids = {}
    /\ all_asset_ids = None
    /\ MatcherIdle
    /\ FetchIdle
    /\ AlbumIdle
    /\ AllIdle

\* Rule.__init__ for a rule without "conditions".
RuleInit ==
    /\ pc = "config"
    /\ ctor = None
    /\ rule_filters' = Some(rule_filters_from_config(config))
    /\ condition_tree' = Some(convert_filters_to_tree(rule_filters_from_config(config)))
    /\ pc' = "built"
    /\ UNCHANGED <<config, people_resolver, base_assets, date_filters, result, calls,
                   resolve_calls, ctor>>
    /\ UNCHANGED <<sync_vars, matcher_vars, fetch_vars, album_vars>>
    /\ UNCHANGED all_vars

\* Rule.execute(client, people_resolver) of such a rule.
Execute ==
    /\ pc = "built"
    /\ rule_filters # None
    /\ LET resolving == rule_filters[1].include_people # <<>> /\ people_resolver # None
           include_people_ids ==
               IF resolving
               THEN resolve_people_names(people_resolver[1], rule_filters[1].include_people)
               ELSE None
           tree == IF TruthyList(include_people_ids)
                   THEN [condition_tree[1] EXCEPT
                            !.condition = Some([condition_tree[1].condition[1] EXCEPT
                                                   !.person_ids = include_people_ids])]
                   ELSE condition_tree[1]
           df == execute_date_filters(rule)
           base == IF df # None THEN Some(search_assets(base_query(df))) ELSE None
           out == evaluate(tree, base, df)
       IN /\ condition_tree' = Some(tree)
          /\ resolve_calls' = IF resolving THEN resolve_calls + 1 ELSE resolve_calls
          /\ date_filters' = df
          /\ base_assets' = base
          /\ result' = Some(out.result)
          /\ calls' = (IF df # None THEN <<base_query(df)>> ELSE <<>>) \o out.calls
    /\ pc' = "executed"
    /\ UNCHANGED <<config, people_resolver, ctor, rule_filters>>
    /\ UNCHANGED <<sync_vars, matcher_vars, fetch_vars, album_vars>>
    /\ UNCHANGED all_vars

NextLegacy == RuleInit \/ Execute

SpecLegacy == InitLegacy /\ [][NextLegacy]_vars

-----------------------------------------------------------------------------
(* RuleEngine.sync_all: one sync_rule call after the other                 *)

\* The longest list of rules.
MaxRules == 3

\* What a sync_rule call comes back with: an exception, or its stats.
Raised == [raised |-> TRUE, assets_added |-> 0, assets_removed |-> 0]

Returned(added, removed) ==
    [raised |-> FALSE, assets_added |-> added, assets_removed |-> removed]

\* The stats a sync_rule call that returns can report here.
StatsInputs == { Returned(added, removed) : added \in 0..1, removed \in 0..1 }

\* The try statement without its except clause: the exception leaves sync_all.
sync_all_try_uncaught(overall, rule_id, outcome) ==
    IF outcome.raised
    THEN [overall |-> overall, propagates |-> TRUE]
    ELSE [overall |->
            [overall EXCEPT !.rules_processed = @ + 1,
                            !.total_assets_added = @ + outcome.assets_added,
                            !.total_assets_removed = @ + outcome.assets_removed],
          propagates |-> FALSE]

\* The body of sync_all's loop for one rule: the try statement around the
\* sync_rule call, given what the call came back with.
sync_all_try(overall, rule_id, outcome) ==
    IF outcome.raised
    THEN [overall |-> [overall EXCEPT !.errors = Append(@, rule_id)],
          propagates |-> FALSE]
    ELSE [overall |->
            [overall EXCEPT !.rules_processed = @ + 1,
                            !.total_assets_added = @ + outcome.assets_added,
                            !.total_assets_removed = @ + outcome.assets_removed],
          propagates |-> FALSE]

InitAll ==
    /\ \E n \in 0..MaxRules :
          /\ rules = [i \in 1..n |-> i]
          /\ raising \in SUBSET (1..n)
    /\ attempted = <<>>
    /\ overall_stats = NoOverallStats
    /\ apc = "idle"
    /\ ConditionIdle
    /\ SyncIdle
    /\ MatcherIdle
    /\ FetchIdle
    /\ AlbumIdle
    /\ LegacyIdle

\* sync_all is called: overall_stats is set up.
SyncAllCall ==
    /\ apc = "idle"
    /\ overall_stats' = NoOverallStats
    /\ attempted' = <<>>
    /\ apc' = "looping"
    /\ UNCHANGED <<rules, raising>>
    /\ UNCHANGED <<condition_vars, sync_vars, matcher_vars, fetch_vars, album_vars,
                   legacy_vars>>

\* One pass of `for rule in self.rules`.
SyncAllRule ==
    /\ apc = "looping"
    /\ Len(attempted) < Len(rules)
    /\ LET rule_id == rules[Len(attempted) + 1]
       IN \E outcome \in (IF rule_id \in raising THEN {Raised} ELSE StatsInputs) :
            LET after == sync_all_try(overall_stats, rule_id, outcome)
            IN /\ attempted' = Append(attempted, rule_id)
               /\ overall_stats' = after.overall
               /\ apc' = IF after.propagates THEN "raised" ELSE "looping"
    /\ UNCHANGED <<rules, raising>>
    /\ UNCHANGED <<condition_vars, sync_vars, matcher_vars, fetch_vars, album_vars,
                   legacy_vars>>

\* The loop is over: return overall_stats.
SyncAllReturn ==
    /\ apc = "looping"
    /\ Len(attempted) = Len(rules)
    /\ apc' = "returned"
    /\ UNCHANGED <<rules, raising, attempted, overall_stats>>
    /\ UNCHANGED <<condition_vars, sync_vars, matcher_vars, fetch_vars, album_vars,
                   legacy_vars>>

NextAll == SyncAllCall \/ SyncAllRule \/ SyncAllReturn

SpecAll == InitAll /\ [][NextAll]_vars

-----------------------------------------------------------------------------
(* Properties                                                              *)

\* The tree the rule holds, and the tree from_config built for it.
Tree == condition_tree[1]
Built == from_config(config, people_resolver)

\* A node and all the nodes below it.
RECURSIVE Subnodes(_)
Subnodes(node) ==
    {node} \cup UNION {Subnodes(node.children[i]) : i \in 1..Len(node.children)}

\* What each child of a node evaluates to, with the arguments of the last call.
ChildOut(node, i) == evaluate(node.children[i], base_assets, date_filters)

\* The assets every one of the first k children of a node returns.
PrefixMeet(node, k) ==
    {a \in AssetIds : \A i \in 1..k : a \in ChildOut(node, i).result}

\* The calls of the first k children, one child after the other.
RECURSIVE PrefixCalls(_, _)
PrefixCalls(node, k) ==
    IF k = 0 THEN <<>> ELSE PrefixCalls(node, k - 1) \o ChildOut(node, k).calls

\* An AND node over leaves only.
AndOfLeaves(node) ==
    /\ node.node_type = "and"
    /\ \A i \in 1..Len(node.children) : node.children[i].node_type = "leaf"

\* The filters of the i-th child of an AND of leaves.
ChildCond(node, i) == node.children[i].condition[1]

\* C1: evaluating the optimized tree returns the same asset ids as
\* evaluating the tree as from_config built it, for the same base set and
\* date filters.
C1_OptimizeKeepsEvaluation ==
    (pc = "optimized" /\ result # None)
        => result[1] = evaluate(Built, base_assets, date_filters).result

\* C2: optimize is idempotent: optimizing the optimized tree gives the
\* same tree, node for node.
C2_OptimizeIdempotent ==
    pc = "optimized" => optimize(Tree) = Tree

C2_Witness ==
    /\ pc = "optimized"
    /\ Tree # Built
    /\ Tree.node_type # "leaf"

\* C3: an AND node evaluates to the intersection of what its children
\* evaluate to, an OR node to their union, at the root and at every node
\* below it.
C3_AndMeetsOrJoins ==
    result # None =>
        /\ result[1] = evaluate(Tree, base_assets, date_filters).result
        /\ \A n \in Subnodes(Tree) :
              LET out == evaluate(n, base_assets, date_filters).result IN
              /\ n.node_type = "and" => out = PrefixMeet(n, Len(n.children))
              /\ n.node_type = "or" =>
                    out = UNION {ChildOut(n, i).result : i \in 1..Len(n.children)}

C3_Witness ==
    /\ result # None
    /\ result[1] # {}
    /\ Tree.node_type = "or"
    /\ Len(Tree.children) = 2
    /\ \A i \in 1..2 : ChildOut(Tree, i).result # result[1]
    /\ \E i \in 1..2 :
          /\ Tree.children[i].node_type = "and"
          /\ ChildOut(Tree, i).result # {}

\* C4: an AND node evaluates its children in order and stops at the first
\* child that leaves the intersection empty: the calls issued are those of
\* the children up to that one, in order, none of a later sibling, and the
\* node returns the empty set.
C4_AndShortCircuits ==
    result # None =>
        \A n \in Subnodes(Tree) :
            n.node_type = "and" =>
                LET out == evaluate(n, base_assets, date_filters)
                    len == Len(n.children)
                    empties == {k \in 1..len : PrefixMeet(n, k) = {}}
                    last == IF empties = {} THEN len
                            ELSE CHOOSE k \in empties : \A j \in empties : k <= j
                IN /\ out.calls = PrefixCalls(n, last)
                   /\ empties # {} => out.result = {}
                   /\ n = Tree => calls = out.calls

C4_Witness ==
    /\ result # None
    /\ Tree.node_type = "and"
    /\ Len(Tree.children) >= 2
    /\ ChildOut(Tree, 1).result = {}
    /\ ChildOut(Tree, 1).calls # <<>>
    /\ ChildOut(Tree, 2).calls # <<>>
    /\ calls = ChildOut(Tree, 1).calls

\* The children of an AND of leaves carry asset types and nothing else.
OnlyAssetTypes(node) ==
    \A i \in 1..Len(node.children) :
        /\ ChildCond(node, i).asset_types # None
        /\ ChildCond(node, i) =
              [FilterCondition EXCEPT !.asset_types = ChildCond(node, i).asset_types]

\* The asset types every child that names asset types allows.
CommonTypes(node) ==
    {t \in {"IMAGE", "VIDEO"} :
        \A i \in 1..Len(node.children) :
            ChildCond(node, i).asset_types # None
                => t \in ChildCond(node, i).asset_types[1]}

\* C5: an AND of leaves whose asset-type sets have nothing in common is
\* optimized to a leaf that evaluates to the empty set, for every base set,
\* without a search_assets call.
C5_DisjointTypesMatchNothing ==
    (/\ pc = "optimized"
     /\ result # None
     /\ AndOfLeaves(Built)
     /\ OnlyAssetTypes(Built)
     /\ CommonTypes(Built) = {})
        => /\ Tree.node_type = "leaf"
           /\ result[1] = {}
           /\ calls = <<>>

\* C6: an AND of leaves of which two or more carry a person_ids list
\* (not None) is not merged: optimize leaves an AND node with one child per
\* leaf.
C6_PeopleLeavesStayApart ==
    (/\ pc = "optimized"
     /\ AndOfLeaves(Built)
     /\ Cardinality({i \in 1..Len(Built.children) :
                        ChildCond(Built, i).person_ids # None}) >= 2)
        => /\ Tree.node_type = "and"
           /\ Len(Tree.children) = Len(Built.children)

\* The resolution lists of the children of an AND of leaves, one after
\* the other.
RECURSIVE ResolutionsUpTo(_, _)
ResolutionsUpTo(node, k) ==
    IF k = 0 THEN <<>>
    ELSE ResolutionsUpTo(node, k - 1)
         \o (IF ChildCond(node, k).resolution # None
             THEN ChildCond(node, k).resolution[1] ELSE <<>>)

\* C7: when optimize merges the leaves of an AND node into one leaf, the
\* resolution list of that leaf is the concatenation of the resolution
\* lists of the leaves it merged.
C7_MergedLeafKeepsResolutions ==
    (/\ pc = "optimized"
     /\ AndOfLeaves(Built)
     /\ CommonTypes(Built) # {}
     /\ Tree.node_type = "leaf")
        => LET all == ResolutionsUpTo(Built, Len(Built.children))
           IN Tree.condition[1].resolution = IF all = <<>> THEN None ELSE Some(all)

\* C8: a leaf whose person_ids list is present and empty evaluates to the
\* empty set without a search_assets call, whatever else it carries and
\* whatever the base set.
C8_EmptyPeopleMatchNothing ==
    result # None =>
        \A n \in Subnodes(Tree) :
            (n.node_type = "leaf" /\ n.condition[1].person_ids = Some(<<>>))
                => /\ evaluate(n, base_assets, date_filters)
                        = [result |-> {}, calls |-> <<>>]
                   /\ n = Tree => (result[1] = {} /\ calls = <<>>)

C8_Witness ==
    /\ result # None
    /\ Tree.node_type = "leaf"
    /\ Tree.condition[1].person_ids = Some(<<>>)
    /\ Tree.condition[1].is_favorite # None
    /\ base_assets # None
    /\ base_assets[1] # {}
    /\ calls = <<>>

\* The leaves of a tree, in document order.
RECURSIVE tree_leaves(_)
RECURSIVE tree_leaves_of(_, _)
tree_leaves_of(children, i) ==
    IF i > Len(children) THEN <<>>
    ELSE tree_leaves(children[i]) \o tree_leaves_of(children, i + 1)
tree_leaves(node) ==
    IF node.node_type = "leaf" THEN <<node>> ELSE tree_leaves_of(node.children, 1)

\* A leaf configuration that asks for people none of whom the resolver knows.
AsksUnknownPeople(cfg) ==
    /\ cfg.people # None
    /\ cfg.people[1].include # <<>>
    /\ \A n \in Range(cfg.people[1].include) : n \notin DOMAIN people_resolver[1]

\* C9: a leaf built from a configuration that asks for people of whom the
\* resolver knows none has person_ids present and empty; names are
\* resolved while the tree is built, once per leaf that asks for people,
\* and never again while it is optimized or evaluated.
C9_UnknownPeopleGiveEmptyList ==
    /\ pc = "built" =>
          /\ Len(tree_leaves(Tree)) = Len(config_leaves(config))
          /\ \A i \in 1..Len(config_leaves(config)) :
                AsksUnknownPeople(config_leaves(config)[i])
                    => tree_leaves(Tree)[i].condition[1].person_ids = Some(<<>>)
    /\ pc = "config" => resolve_calls = 0
    /\ pc # "config" =>
          resolve_calls = Cardinality({i \in 1..Len(config_leaves(config)) :
                                         /\ config_leaves(config)[i].people # None
                                         /\ config_leaves(config)[i].people[1].include # <<>>})

C9_Witness ==
    /\ pc = "built"
    /\ result # None
    /\ resolve_calls = 1
    /\ config["and"] = None /\ config["or"] = None
    /\ AsksUnknownPeople(config)
    /\ Tree.condition[1].person_ids = Some(<<>>)

\* C10: a leaf whose FilterCondition has every field unset evaluates to
\* the base set it is given, or to the empty set when it is given none,
\* without a search_assets call.
C10_NoFiltersGiveBase ==
    result # None =>
        \A n \in Subnodes(Tree) :
            (n.node_type = "leaf" /\ n.condition[1] = FilterCondition)
                => /\ evaluate(n, base_assets, date_filters)
                        = [result |-> IF base_assets # None THEN base_assets[1] ELSE {},
                           calls |-> <<>>]
                   /\ n = Tree =>
                        /\ result[1] = IF base_assets # None THEN base_assets[1] ELSE {}
                        /\ calls = <<>>

C10_Witness ==
    /\ result # None
    /\ pc = "built"
    /\ Tree = Leaf(FilterCondition)
    /\ base_assets # None
    /\ result[1] = base_assets[1]
    /\ result[1] # {}

-----------------------------------------------------------------------------
(* One batch of metadata requests: ResolutionFilter.filter_by_resolution   *)
(* and FuzzyMatcher._fetch_asset_metadata submit one task per asset to a   *)
(* ThreadPoolExecutor and wait for the futures in the order of submission. *)

\* Largest number of assets of a batch.
MaxBatch == 3

\* The orders list(asset_ids) may have.
Orders(ids) ==
    {order \in [1..Cardinality(ids) -> ids] : Range(order) = ids}

TargetInputs ==
    { <<>>, <<(<<1920, 1080>>)>>, <<(<<3840, 2160>>), (<<1920, 1080>>)>> }

\* The photographs metadata batches are made of.
BatchPhotoIds == {"p1", "p3", "p4", "p6"}

InitFetch ==
    /\ ConditionIdle
    /\ MatcherIdle
    /\ rule = NoRule
    /\ global_fuzzy_match = FALSE
    /\ desired_asset_ids = {}
    /\ spc = "idle"
    /\ fuzzy_asset_ids = {}
    /\ all_asset_ids = None
    /\ \/ /\ batch_kind = "resolution"
          /\ batch_asset_ids \in {ids \in SUBSET AssetIds : Cardinality(ids) <= MaxBatch}
          /\ batch_targets \in TargetInputs
       \/ /\ batch_kind = "metadata"
          /\ batch_asset_ids \in {ids \in SUBSET BatchPhotoIds :
                                    Cardinality(ids) \in 1..MaxBatch}
          /\ batch_targets = <<>>
    /\ fetch_fails \in SUBSET batch_asset_ids
    /\ asset_id_list = <<>>
    /\ futures = <<>>
    /\ future_results = <<>>
    /\ next_future = 1
    /\ collected = <<>>
    /\ requests = {}
    /\ completion_order = <<>>
    /\ bpc = "start"
    /\ AlbumIdle
    /\ LegacyIdle
    /\ AllIdle

\* The worker threads of the executor.
workers == IF batch_kind = "resolution" THEN max_workers ELSE PARALLEL_WORKERS

\* What the task of the i-th asset returns.
task_result(i) ==
    IF batch_kind = "resolution"
    THEN check_single_asset(asset_id_list[i], batch_targets, fetch_fails)
    ELSE fetch_single(asset_id_list[i], fetch_fails)

\* Entry: filter_by_resolution returns at once on an empty argument;
\* otherwise every asset gets its task.
SubmitTasks ==
    /\ bpc = "start"
    /\ IF batch_kind = "resolution" /\ (batch_asset_ids = {} \/ batch_targets = <<>>)
       THEN /\ bpc' = "done"
            /\ UNCHANGED <<asset_id_list, futures, future_results>>
       ELSE /\ asset_id_list' \in Orders(batch_asset_ids)
            /\ futures' = [i \in 1..Cardinality(batch_asset_ids) |-> "queued"]
            /\ future_results' = [i \in 1..Cardinality(batch_asset_ids) |->
                                    [raised |-> FALSE, value |-> None]]
            /\ bpc' = "collecting"
    /\ UNCHANGED <<batch_kind, batch_asset_ids, batch_targets, next_future, collected,
                   requests, completion_order>>
    /\ UNCHANGED <<condition_vars, sync_vars, matcher_vars>>
    /\ UNCHANGED album_vars
    /\ UNCHANGED legacy_vars
    /\ UNCHANGED all_vars

\* A free worker takes the oldest queued task and sends its request.
StartTask ==
    /\ \E i \in DOMAIN futures :
          /\ futures[i] = "queued"
          /\ \A j \in 1..(i - 1) : futures[j] # "queued"
          /\ Cardinality({j \in DOMAIN futures : futures[j] = "running"}) < workers
          /\ futures' = [futures EXCEPT ![i] = "running"]
          /\ requests' = requests \cup {asset_id_list[i]}
    /\ UNCHANGED <<batch_kind, batch_asset_ids, batch_targets, asset_id_list,
                   future_results, next_future, collected, completion_order, bpc>>
    /\ UNCHANGED <<condition_vars, sync_vars, matcher_vars>>
    /\ UNCHANGED album_vars
    /\ UNCHANGED legacy_vars
    /\ UNCHANGED all_vars

\* A running task ends: its future holds what the task returned or raised.
FinishTask ==
    /\ \E i \in DOMAIN futures :
          /\ futures[i] = "running"
          /\ futures' = [futures EXCEPT ![i] = "done"]
          /\ future_results' = [future_results EXCEPT ![i] = task_result(i)]
          /\ completion_order' = Append(completion_order, i)
    /\ UNCHANGED <<batch_kind, batch_asset_ids, batch_targets, asset_id_list,
                   next_future, collected, requests, bpc>>
    /\ UNCHANGED <<condition_vars, sync_vars, matcher_vars>>
    /\ UNCHANGED album_vars
    /\ UNCHANGED legacy_vars
    /\ UNCHANGED all_vars

\* future.result() of the next future, once its task has ended: an
\* exception of the task is raised again, a truthy result is kept.
CollectResult ==
    /\ bpc = "collecting"
    /\ next_future <= Len(futures)
    /\ futures[next_future] = "done"
    /\ LET r == future_results[next_future]
       IN IF r.raised
          THEN bpc' = "raised" /\ UNCHANGED <<collected, next_future>>
          ELSE /\ collected' = IF r.value # None THEN Append(collected, r.value[1])
                               ELSE collected
               /\ next_future' = next_future + 1
               /\ UNCHANGED bpc
    /\ UNCHANGED <<batch_kind, batch_asset_ids, batch_targets, asset_id_list, futures,
                   future_results, requests, completion_order>>
    /\ UNCHANGED <<condition_vars, sync_vars, matcher_vars>>
    /\ UNCHANGED album_vars
    /\ UNCHANGED legacy_vars
    /\ UNCHANGED all_vars

\* Every future has been waited for: the batch returns what it kept.
ReturnBatch ==
    /\ bpc = "collecting"
    /\ next_future > Len(futures)
    /\ bpc' = "done"
    /\ UNCHANGED <<batch_kind, batch_asset_ids, batch_targets, asset_id_list, futures,
                   future_results, next_future, collected, requests, completion_order>>
    /\ UNCHANGED <<condition_vars, sync_vars, matcher_vars>>
    /\ UNCHANGED album_vars
    /\ UNCHANGED legacy_vars
    /\ UNCHANGED all_vars

NextFetch ==
    \/ SubmitTasks
    \/ StartTask
    \/ FinishTask
    \/ CollectResult
    \/ ReturnBatch

SpecFetch == InitFetch /\ [][NextFetch]_vars

-----------------------------------------------------------------------------
(* Properties of the matcher and of sync_rule (SpecSync)                   *)

\* C11: whatever find_related_assets returns holds none of the exact
\* matches it was given, sampled as seeds or not.
C11_FuzzyDisjointFromExact ==
    fpc = "returned" => fuzzy_matches[1] \cap exact_match_ids = {}

\* More exact matches than the cap, and an exact match that was not drawn
\* as a seed is in proximity of the seeds.
C11_Witness ==
    /\ fpc = "returned"
    /\ Cardinality(exact_match_ids) > MAX_FUZZY_SEEDS
    /\ \E a \in exact_match_ids \ sampled_ids :
          a \in filter_by_proximity(candidates, exact_metadata, fetch_fails)

\* The timestamps of the seeds, and the starts and ends the rule gives.
SeedTimes == {m.timestamp[1] : m \in exact_metadata}
RuleStarts ==
    {d[1] : d \in {rule_date_filters.taken_after, rule_date_filters.created_after} \ {None}}
RuleEnds ==
    {d[1] : d \in {rule_date_filters.taken_before, rule_date_filters.created_before} \ {None}}

CandidateMetadata == fetch_asset_metadata(candidates, fetch_fails)

\* An asset carries GPS coordinates: both are there, whatever their value.
CarriesGps(m) == m.latitude # None /\ m.longitude # None

\* C13: a candidate with a usable timestamp is found in proximity exactly
\* when some seed is within the time window of it and, if both carry GPS
\* coordinates (0 included), within the radius of it.
C13_ProximityByTimeAndGps ==
    (fpc = "returned" /\ candidates # {}) =>
        \A c \in CandidateMetadata :
            c.asset_id \notin exact_match_ids =>
                (c.asset_id \in fuzzy_matches[1]
                 <=> \E e \in exact_metadata :
                        /\ Abs(c.timestamp[1] - e.timestamp[1]) <= time_window
                        /\ (CarriesGps(c) /\ CarriesGps(e))
                           => haversine_distance(c.latitude[1], c.longitude[1],
                                                 e.latitude[1], e.longitude[1])
                                <= location_radius_meters)

\* A seed yields a usable timestamp: its request succeeds and one of its
\* date fields parses.
UsableSeed(a) ==
    /\ a \notin fetch_fails
    /\ \/ Parses(Photos[a].dateTimeOriginal)
       \/ Parses(Photos[a].fileCreatedAt)
       \/ Parses(Photos[a].fileModifiedAt)

\* find_related_assets has ended, it had exact matches and none of its
\* seeds yielded a usable timestamp.
EndedWithoutUsableSeed ==
    /\ fpc \in {"returned", "raised"}
    /\ exact_match_ids # {}
    /\ \A a \in sampled_ids : ~UsableSeed(a)

RuleUsesTakenOnly ==
    /\ rule.taken_after # None \/ rule.taken_before # None
    /\ rule.created_after = None /\ rule.created_before = None
RuleUsesCreatedOnly ==
    /\ rule.created_after # None \/ rule.created_before # None
    /\ rule.taken_after = None /\ rule.taken_before = None

-----------------------------------------------------------------------------
(* Properties of the batches of metadata requests (SpecFetch)              *)

\* The (width, height) pairs observed of an asset whose metadata arrived:
\* the EXIF pair when both EXIF numbers are there, else the pair of the
\* file when both of its numbers are there, else none.
ObservedPairs(a) ==
    IF a \in fetch_fails THEN {}
    ELSE LET exif == Library[a].exifInfo
             file == Library[a].original
         IN IF exif[1] # 0 /\ exif[2] # 0 THEN {exif}
            ELSE IF file[1] # 0 /\ file[2] # 0 THEN {file}
            ELSE {}

\* C16: filter_by_resolution returns exactly the assets whose observed
\* pair, EXIF before file, is one of the targets; an asset without an
\* observed pair is left out; with no assets or no targets it returns the
\* empty set and fetches no metadata.
C16_ResolutionFilterExact ==
    (batch_kind = "resolution" /\ bpc = "done") =>
        /\ Range(collected) =
              {a \in batch_asset_ids : ObservedPairs(a) \cap Range(batch_targets) # {}}
        /\ (batch_asset_ids = {} \/ batch_targets = <<>>) =>
              (collected = <<>> /\ requests = {})

\* A batch that kept an asset for the pair of its file, dropped one whose
\* EXIF pair is no target although the pair of its file is, and dropped
\* one with no pair at all.
C16_Witness ==
    /\ batch_kind = "resolution" /\ bpc = "done"
    /\ fetch_fails = {}
    /\ batch_asset_ids = {"a2", "a3", "a4"}
    /\ batch_targets = <<(<<1920, 1080>>)>>
    /\ Range(collected) = {"a3"}
    /\ requests = batch_asset_ids

\* An asset of the batch qualifies: its request succeeds and it has a
\* target resolution (resolution batch) or a usable timestamp (metadata
\* batch).
Qualifies(a) ==
    IF batch_kind = "resolution"
    THEN ObservedPairs(a) \cap Range(batch_targets) # {}
    ELSE UsableSeed(a)

\* The assets the batch kept, in the order it kept them.
KeptIds ==
    [i \in 1..Len(collected) |->
        IF batch_kind = "resolution" THEN collected[i] ELSE collected[i].asset_id]

\* C17: whichever requests fail and in whatever order the tasks run and
\* end, a batch never raises, and it returns the assets whose request
\* succeeded and that qualified, in the order of submission, leaving the
\* failing ones out.
C17_BatchSurvivesFailuresAndSchedules ==
    /\ bpc # "raised"
    /\ bpc = "done" =>
          /\ KeptIds = SelectSeq(asset_id_list, Qualifies)
          /\ Range(KeptIds) \cap fetch_fails = {}

\* A finished batch of three: the request of the first asset failed, the
\* other two were kept, and the last task ended before the first.
C17_Witness ==
    /\ bpc = "done"
    /\ Len(asset_id_list) = 3
    /\ asset_id_list[1] \in fetch_fails
    /\ Len(collected) = 2
    /\ completion_order[1] = 3
    /\ completion_order[3] = 1

-----------------------------------------------------------------------------
(* Properties of sync_rule (SpecSync)                                      *)

\* Proximity matching is enabled for the rule: the rule's own setting when
\* it has one, the global setting when it has none.
EnabledForRule ==
    \/ rule.fuzzy_match = Some(TRUE)
    \/ rule.fuzzy_match = None /\ global_fuzzy_match

\* What the matcher found for the rule: what it returned, nothing when it
\* was not run.
FoundByMatcher == IF fuzzy_matches # None THEN fuzzy_matches[1] ELSE {}

\* C18: sync_rule reconciles the exact matches alone when proximity
\* matching is disabled for the rule, and the exact matches together with
\* the fuzzy matches when it is enabled.
C18_ReconciledSetFollowsSetting ==
    spc = "combined" =>
        /\ ~EnabledForRule => (all_asset_ids = Some(desired_asset_ids) /\ fpc = "idle")
        /\ EnabledForRule =>
              /\ all_asset_ids = Some(desired_asset_ids \cup FoundByMatcher)
              /\ desired_asset_ids # {} => fpc = "returned"

\* The rule turns proximity matching on against the global setting, and
\* the matcher adds assets to the exact matches.
C18_Witness ==
    /\ spc = "combined"
    /\ rule.fuzzy_match = Some(TRUE)
    /\ ~global_fuzzy_match
    /\ fuzzy_asset_ids # {}
    /\ all_asset_ids = Some(desired_asset_ids \cup fuzzy_asset_ids)
    /\ all_asset_ids # Some(desired_asset_ids)

\* The configuration, or an operand at any depth, is one that construction
\* must refuse.
RECURSIVE HasStructuralError(_)
OperandsInError(operands) ==
    \/ operands.type # "list"
    \/ operands.items = <<>>
    \/ \E i \in 1..Len(operands.items) : HasStructuralError(operands.items[i])

HasStructuralError(cfg) ==
    \/ cfg.type # "dict"
    \/ cfg.type = "dict" /\ cfg["and"] # None /\ OperandsInError(cfg["and"][1])
    \/ cfg.type = "dict" /\ cfg["and"] = None /\ cfg["or"] # None
          /\ OperandsInError(cfg["or"][1])

\* A direct constructor call for an AND/OR without children or a LEAF
\* without a condition.
BadCtorArguments ==
    /\ ctor # None
    /\ \/ ctor[1].node_type \in {"and", "or"} /\ ctor[1].children = <<>>
       \/ ctor[1].node_type = "leaf" /\ ctor[1].condition = None

\* C19: once construction has run, it has failed with a structural error
\* and produced no node whenever an AND/OR had no children, a LEAF had no
\* condition, an 'and'/'or' value was no list or a condition value was no
\* mapping, at any nesting depth of from_config.
C19_StructuralErrorsRaise ==
    (pc # "config" /\ (BadCtorArguments \/ (ctor = None /\ HasStructuralError(config))))
        => (pc = "error" /\ condition_tree = None)

\* from_config has raised for an operand two levels down that is no
\* mapping, after the rule's outer 'and' and inner 'or' were both lists.
C19_Witness ==
    /\ pc = "error"
    /\ condition_tree = None
    /\ ctor = None
    /\ config["and"] # None
    /\ config["and"][1].type = "list"
    /\ Len(config["and"][1].items) = 1
    /\ config["and"][1].items[1]["or"] # None
    /\ config["and"][1].items[1]["or"][1].type = "list"
    /\ Len(config["and"][1].items[1]["or"][1].items) = 1
    /\ config["and"][1].items[1]["or"][1].items[1].type # "dict"

\* C20: an OR node evaluates every child, in document order, whatever the
\* earlier children returned: the calls it issues are the calls of all its
\* children one after the other, so their number does not depend on any
\* child's result being empty or not.
C20_OrEvaluatesEveryChild ==
    (pc \in {"built", "optimized"} /\ result # None)
        => \A n \in Subnodes(Tree) :
              n.node_type = "or"
                  => evaluate(n, base_assets, date_filters).calls
                         = PrefixCalls(n, Len(n.children))

\* An OR whose first child found assets and whose first child found none
\* both went on to the calls of the next child.
C20_Witness ==
    /\ pc \in {"built", "optimized"}
    /\ result # None
    /\ \E n \in Subnodes(Tree) :
          /\ n.node_type = "or"
          /\ Len(n.children) >= 3
          /\ ChildOut(n, 1).result = {}
          /\ ChildOut(n, 1).calls # <<>>
          /\ ChildOut(n, 2).result # {}
          /\ ChildOut(n, 2).calls # <<>>
          /\ ChildOut(n, 3).calls # <<>>
          /\ Len(calls) = 3

\* C21: in an optimized tree no AND node has an AND node as a direct
\* child, no OR node has an OR node as a direct child, and every AND/OR
\* node has at least two children.
C21_OptimizedTreeIsFlat ==
    pc = "optimized"
        => \A n \in Subnodes(Tree) :
              n.node_type \in {"and", "or"}
                  => /\ Len(n.children) >= 2
                     /\ \A i \in 1..Len(n.children) :
                           n.children[i].node_type # n.node_type

\* optimize has spliced the two children of a nested OR into the OR above
\* it, which now has three leaves.
C21_Witness ==
    /\ pc = "optimized"
    /\ Built.node_type = "or"
    /\ Len(Built.children) = 2
    /\ Built.children[1].node_type = "or"
    /\ Len(Built.children[1].children) = 2
    /\ Tree.node_type = "or"
    /\ Len(Tree.children) = 3
    /\ \A i \in 1..3 : Tree.children[i].node_type = "leaf"

\* The date range the evaluation was given: that of date_filters, or no
\* range at all.
DatesGiven == IF date_filters # None THEN date_filters[1] ELSE NoDates

\* The date range a search call carries.
DatesOf(p) ==
    [taken_after |-> p.taken_after, taken_before |-> p.taken_before,
     created_after |-> p.created_after, created_before |-> p.created_before]

\* C22: what evaluate returns lies within the base set it was given, and
\* so does what every node of the tree evaluates to; every search call
\* issued for a leaf carries the date filters evaluate was given, unchanged.
C22_BaseAndDatesReachEveryLeaf ==
    (pc \in {"built", "optimized"} /\ result # None)
        => /\ base_assets # None
                => /\ result[1] \subseteq base_assets[1]
                   /\ \A n \in Subnodes(Tree) :
                         evaluate(n, base_assets, date_filters).result
                             \subseteq base_assets[1]
           /\ \A i \in 1..Len(calls) : DatesOf(calls[i]) = DatesGiven

\* A tree of an OR under an AND was evaluated over a base set and with
\* date filters: the leaves of the OR were searched with those dates and
\* assets of the base set were returned.
C22_Witness ==
    /\ pc \in {"built", "optimized"}
    /\ result # None
    /\ base_assets # None
    /\ date_filters # None
    /\ result[1] # {}
    /\ Tree.node_type = "and"
    /\ \E i \in 1..Len(Tree.children) : Tree.children[i].node_type = "or"
    /\ Len(calls) >= 2
    /\ \A i \in 1..Len(calls) : calls[i].taken_after = date_filters[1].taken_after

-----------------------------------------------------------------------------
(* Properties of sync_rule over several calls (SpecAlbum)                  *)

\* The assets the database records as added by the rule to its album.
Recorded ==
    {m.asset_id : m \in {x \in album_memberships :
                            x.rule_id = RuleId /\ x.album_id = album[1]}}

\* This step is a sync_rule call.
SyncRuleStep == sync_calls' = sync_calls + 1

\* C23: in sync mode with dry_run false, once sync_rule has returned for a
\* rule whose album exists, the assets recorded for the rule and the album
\* are the rule's desired set (exact and fuzzy), empty or not.
C23_SyncModeMirrorsDesired ==
    (spc = "returned" /\ mode = "sync" /\ ~dry_run /\ album # None)
        => Recorded = all_asset_ids[1]

\* C24: a sync_rule call with dry_run true creates no album, adds and
\* removes no album asset, updates no sharing and writes nothing to the
\* database.
C24_DryRunWritesNothing ==
    [][(SyncRuleStep /\ dry_run')
          => /\ album' = album
             /\ album_assets' = album_assets
             /\ album_users' = album_users
             /\ albums_created' = albums_created
             /\ sharing_updates' = sharing_updates
             /\ album_memberships' = album_memberships
             /\ analyzed_assets' = analyzed_assets]_vars

\* C25: in add_only mode no step removes an asset from the album or a row
\* from album_memberships, whatever the library turns into between calls.
C25_AddOnlyNeverRemoves ==
    [][mode = "add_only"
          => /\ album_assets \subseteq album_assets'
             /\ album_memberships \subseteq album_memberships'
             /\ remove_requests' = <<>>]_vars

\* In add_only mode a second call has returned with recorded assets in the
\* album that the rule matches no more.
C25_Witness ==
    /\ mode = "add_only"
    /\ spc = "returned"
    /\ sync_calls >= 2
    /\ ~dry_run
    /\ album # None
    /\ all_asset_ids[1] # {}
    /\ Recorded \ all_asset_ids[1] # {}
    /\ Recorded \subseteq album_assets

\* C26: every asset a sync_rule call removes from the album had a row of
\* this rule and this album in album_memberships before the call and is
\* not in the set the call reconciles; assets without such a row stay.
C26_RemovesOnlyOwnStaleAssets ==
    [][SyncRuleStep
          => \A a \in (album_assets \ album_assets')
                        \cup UNION {remove_requests'[i] : i \in 1..Len(remove_requests')} :
                /\ album # None
                /\ \E m \in album_memberships :
                      m.rule_id = RuleId /\ m.album_id = album[1] /\ m.asset_id = a
                /\ a \notin all_asset_ids'[1]]_vars

\* A call has removed assets of the rule while an asset another rule
\* recorded, matched by this rule no more than the removed ones, is still
\* in the album.
C26_Witness ==
    /\ spc = "returned"
    /\ remove_requests # <<>>
    /\ stats.assets_removed > 0
    /\ "p3" \in album_assets
    /\ "p3" \notin all_asset_ids[1]
    /\ "p3" \notin Recorded
    /\ Membership(OtherRuleId, RuleAlbumId, "p3", "exact") \in album_memberships

\* The step is a second or later sync_rule call, this call and the one
\* before it were made with dry_run false and nothing failed in them, and
\* rule.execute found the same assets both times.
RepeatedSync ==
    /\ SyncRuleStep
    /\ sync_calls >= 1
    /\ ~dry_run /\ ~dry_run'
    /\ trouble = "none" /\ trouble' = "none"
    /\ desired_asset_ids' = desired_asset_ids

\* The call changed nothing.
NothingToDo ==
    /\ add_requests' = <<>>
    /\ remove_requests' = <<>>
    /\ stats' = NoStats

\* C27 (as stated): a repeated sync_rule call issues no add and no remove
\* request and reports no asset added or removed, in either mode, with or
\* without proximity matching, for exact sets of any size.
C27_ResyncIdempotent ==
    [][RepeatedSync => NothingToDo]_vars

\* C27 (amended): the same, when proximity matching is off or the exact
\* set has no more assets than the seed cap.
C27_ResyncIdempotentWithinSeedCap ==
    [][(RepeatedSync /\ (~fuzzy_enabled(rule, global_fuzzy_match)
                          \/ Cardinality(desired_asset_ids) <= MAX_FUZZY_SEEDS))
          => NothingToDo]_vars

\* A second call with proximity matching found every exact and fuzzy
\* asset recorded and had nothing to add or remove.
C27_Witness ==
    /\ spc = "returned"
    /\ sync_calls >= 2
    /\ ~dry_run
    /\ trouble = "none"
    /\ fuzzy_asset_ids # {}
    /\ Cardinality(desired_asset_ids) <= MAX_FUZZY_SEEDS
    /\ album # None
    /\ Recorded = all_asset_ids[1]
    /\ albums_created = 1
    /\ add_requests = <<>>
    /\ remove_requests = <<>>
    /\ stats = NoStats

\* C30: when find_related_assets raises, and when no seed has a usable
\* timestamp, sync_rule goes on with the exact matches alone: they are
\* reconciled into the album and no fuzzy asset is added in that call.
C30_MatcherFailureKeepsExact ==
    (spc = "returned"
       /\ (trouble = "raise" \/ \A a \in desired_asset_ids : ~UsableSeed(a)))
        => /\ fuzzy_asset_ids = {}
           /\ all_asset_ids = Some(desired_asset_ids)
           /\ \A i \in 1..Len(add_requests) : add_requests[i] \subseteq desired_asset_ids
           /\ (~dry_run /\ desired_asset_ids # {})
                 => /\ album # None
                    /\ desired_asset_ids \subseteq Recorded
                    /\ desired_asset_ids \subseteq album_assets

\* Proximity matching was enabled and raised where it had assets to find;
\* the call added the exact match to the album.
C30_Witness ==
    /\ spc = "returned"
    /\ trouble = "raise"
    /\ fuzzy_enabled(rule, global_fuzzy_match)
    /\ ~dry_run
    /\ desired_asset_ids = {"p1"}
    /\ find_related_assets({"p1"}, matcher_date_filters(rule), {"p1"}, {}, FALSE) # {}
    /\ add_requests = <<{"p1"}>>
    /\ "p1" \in album_assets
    /\ fuzzy_asset_ids = {}

-----------------------------------------------------------------------------
(* Properties of rules in the old filters format (SpecLegacy)              *)

\* The rule names people and the resolver knows none of them.
NamesNobodyKnown ==
    /\ config.people # None
    /\ config.people[1].include # <<>>
    /\ people_resolver # None
    /\ \A i \in 1..Len(config.people[1].include) :
          config.people[1].include[i] \notin DOMAIN people_resolver[1]

\* C28: a rule in the old filters format whose people names resolve to no
\* identifier matches no asset: execute returns the empty set.
C28_LegacyUnknownPeopleMatchNothing ==
    (pc = "executed" /\ NamesNobodyKnown) => result[1] = {}

-----------------------------------------------------------------------------
(* Properties of sync_all (SpecAll)                                        *)

\* C29: sync_all isolates rule failures: whichever rules' sync_rule raises,
\* the rules are attempted once each in list order, no exception leaves
\* sync_all, and when it returns rules_processed plus the number of errors
\* is the number of rules.
C29_SyncAllIsolatesFailures ==
    /\ apc # "raised"
    /\ attempted = SubSeq(rules, 1, Len(attempted))
    /\ apc = "returned" =>
          /\ attempted = rules
          /\ overall_stats.rules_processed + Len(overall_stats.errors) = Len(rules)
          /\ Len(overall_stats.errors) = Cardinality(raising)
          /\ \A i \in 1..Len(overall_stats.errors) : overall_stats.errors[i] \in raising

\* sync_all has returned from three rules of which the middle one raised.
C29_Witness ==
    /\ apc = "returned"
    /\ Len(rules) = 3
    /\ raising = {2}
    /\ attempted = <<1, 2, 3>>
    /\ overall_stats.rules_processed = 2
    /\ overall_stats.errors = <<2>>

====
